---------------------------- MODULE Spec2Model ----------------------------
(***************************************************************************)
(* A model of the AbraFlexi MCP server (src/abraflexi_mcp_server/server.py) *)
(* as a state machine: the process environment, the module-level           *)
(* configuration cache and the tool invocation the server last ran.        *)
(*                                                                         *)
(* Python values are modelled as follows.                                  *)
(*   str            a TLA+ string                                          *)
(*   int            an integer                                             *)
(*   Optional[T]    a sequence of length at most one: <<>> is None,        *)
(*                  <<v>> is the value v                                   *)
(*   List[T]        a sequence                                             *)
(*   Dict[str, T]   its keys and its values, two sequences in insertion     *)
(*                  order (PyDict below)                                   *)
(*   an exception   the text of its message ("" when nothing was raised)   *)
(***************************************************************************)
EXTENDS Integers, Sequences, FiniteSets, TLC

VARIABLES
    environ,            \* os.environ: variable name -> Optional[str]
    abraflexi_config,   \* the module global abraflexi_config: Optional[config]
    call,               \* the tool invocation whose response is pending, or NoCall
    first_config,       \* history: the first configuration any resolution returned
    heap,               \* the handle objects constructed so far, live or garbage
    running,            \* worker thread -> the invocation it runs, statement by statement
    started,            \* how many invocations the worker threads have begun
    process,            \* the process: launched, serving or exited, and how
    registry            \* the registered tools and the registration test's position

vars ==
    <<environ, abraflexi_config, call, first_config, heap, running, started, process,
      registry>>

\* The variables the tool invocations of Spec, SpecEnv and SpecFormat leave alone.
thread_vars == <<heap, running, started, process, registry>>

---------------------------------------------------------------------------
(* Python's None, truthiness and string helpers.                           *)

None == <<>>

Some(v) == <<v>>

\* bool(x) of an Optional[str]: None and "" are falsy.
Truthy(o) == o # None /\ o[1] # ""

\* bool(x) of an Optional[List] or Optional[Dict]: None and the empty one are falsy.
TruthyList(o) == o # None /\ o[1] # <<>>

\* bool(x) of an Optional[int]: None and 0 are falsy.
TruthyInt(o) == o # None /\ o[1] # 0

\* The value a parameter with a default is bound to.
WithDefault(o, default) == IF o = None THEN default ELSE o[1]

Digits == <<"0", "1", "2", "3", "4", "5", "6", "7", "8", "9">>

IsDigit(c) == \E i \in 1..10 : Digits[i] = c

DigitVal(c) == (CHOOSE i \in 1..10 : Digits[i] = c) - 1

RECURSIVE AllDigits(_)
AllDigits(s) == IF s = "" THEN TRUE ELSE IsDigit(Head(s)) /\ AllDigits(Tail(s))

RECURSIVE DecimalValue(_, _)
DecimalValue(s, acc) ==
    IF s = "" THEN acc ELSE DecimalValue(Tail(s), 10 * acc + DigitVal(Head(s)))

\* int(s) for a str s: [ok |-> the literal parses, val |-> its value]. The strings
\* of the model hold no sign, blank or underscore, so a literal is a non-empty run
\* of decimal digits; anything else raises ValueError.
int(s) ==
    IF s # "" /\ AllDigits(s)
    THEN [ok |-> TRUE, val |-> DecimalValue(s, 0)]
    ELSE [ok |-> FALSE, val |-> 0]

RECURSIVE NatToStr(_)
NatToStr(n) ==
    IF n < 10 THEN Digits[n + 1] ELSE NatToStr(n \div 10) \o Digits[(n % 10) + 1]

\* str(n) for an int n.
str(n) == IF n < 0 THEN "-" \o NatToStr(-n) ELSE NatToStr(n)

UpperCase ==
    <<"A", "B", "C", "D", "E", "F", "G", "H", "I", "J", "K", "L", "M",
      "N", "O", "P", "Q", "R", "S", "T", "U", "V", "W", "X", "Y", "Z">>

LowerOfUpper ==
    <<"a", "b", "c", "d", "e", "f", "g", "h", "i", "j", "k", "l", "m",
      "n", "o", "p", "q", "r", "s", "t", "u", "v", "w", "x", "y", "z">>

LowerChar(c) ==
    IF \E i \in 1..Len(UpperCase) : UpperCase[i] = c
    THEN LowerOfUpper[CHOOSE i \in 1..Len(UpperCase) : UpperCase[i] = c]
    ELSE c

\* s.lower()
RECURSIVE lower(_)
lower(s) == IF s = "" THEN "" ELSE LowerChar(Head(s)) \o lower(Tail(s))

\* sep.join(items) for a list of str.
RECURSIVE join(_, _)
join(sep, items) ==
    IF items = <<>> THEN ""
    ELSE IF Len(items) = 1 THEN items[1]
    ELSE items[1] \o sep \o join(sep, Tail(items))

---------------------------------------------------------------------------
(* The process environment.                                                *)

EnvVars ==
    {"ABRAFLEXI_URL", "ABRAFLEXI_COMPANY", "ABRAFLEXI_LOGIN", "ABRAFLEXI_PASSWORD",
     "ABRAFLEXI_AUTHSESSID", "ABRAFLEXI_TIMEOUT", "READ_ONLY"}

\* The connection variables get_abraflexi_config reads.
ConnVars == EnvVars \ {"READ_ONLY"}

\* The strings a variable is set to in the model.
EnvStrings(var) ==
    CASE var = "ABRAFLEXI_URL" -> {"", "https://demo.flexibee.eu"}
      [] var = "ABRAFLEXI_COMPANY" -> {"demo"}
      [] var = "ABRAFLEXI_LOGIN" -> {"winstrom"}
      [] var = "ABRAFLEXI_PASSWORD" -> {"secret"}
      [] var = "ABRAFLEXI_AUTHSESSID" -> {"sess01"}
      [] var = "ABRAFLEXI_TIMEOUT" -> {"60", "1m"}
      [] var = "READ_ONLY" -> {"Yes", "1", "false"}

\* os.getenv(var): None when the variable is unset. A variable the environment
\* of the model does not hold is unset.
getenv(env, var) == IF var \in DOMAIN env THEN env[var] ELSE None

\* os.getenv(var, default)
getenv_default(env, var, default) ==
    IF getenv(env, var) = None THEN default ELSE getenv(env, var)[1]

---------------------------------------------------------------------------
(* The configuration resolver.                                             *)

ERR_URL == "ABRAFLEXI_URL environment variable is required"

ERR_COMPANY == "ABRAFLEXI_COMPANY environment variable is required"

ERR_AUTH == "Either ABRAFLEXI_AUTHSESSID or ABRAFLEXI_LOGIN/ABRAFLEXI_PASSWORD must be set"

\* The ValueError int() raises for a literal it cannot parse.
ERR_INT(s) == "invalid literal for int() with base 10: '" \o s \o "'"

DEFAULT_TIMEOUT == "300"

\* A resolution that raised: config is the global afterwards.
ConfigRaise(config, msg, reads) ==
    [config |-> config, ret |-> None, raised |-> msg, reads |-> reads]

\* The body of get_abraflexi_config() when the global is None: the environment is
\* read, checked and cached.
ResolveFromEnv(env) ==
    LET url == getenv(env, "ABRAFLEXI_URL")
        company == getenv(env, "ABRAFLEXI_COMPANY")
        timeout == getenv_default(env, "ABRAFLEXI_TIMEOUT", DEFAULT_TIMEOUT)
        built == [url |-> url[1],
                  company |-> company[1],
                  user |-> getenv(env, "ABRAFLEXI_LOGIN"),
                  password |-> getenv(env, "ABRAFLEXI_PASSWORD"),
                  authSessionId |-> getenv(env, "ABRAFLEXI_AUTHSESSID"),
                  timeout |-> int(timeout).val]
    IN  IF ~Truthy(url)
        THEN ConfigRaise(None, ERR_URL, {"ABRAFLEXI_URL", "ABRAFLEXI_COMPANY"})
        ELSE IF ~Truthy(company)
        THEN ConfigRaise(None, ERR_COMPANY, {"ABRAFLEXI_URL", "ABRAFLEXI_COMPANY"})
        ELSE IF ~int(timeout).ok
        THEN ConfigRaise(None, ERR_INT(timeout), ConnVars)
        ELSE IF ~Truthy(built.authSessionId)
                /\ ~(Truthy(built.user) /\ Truthy(built.password))
        THEN \* the global was assigned before the authentication check
             ConfigRaise(Some(built), ERR_AUTH, ConnVars)
        ELSE [config |-> Some(built), ret |-> Some(built), raised |-> "",
              reads |-> ConnVars]

\* A resolver that reads the environment on every call.
get_abraflexi_config_uncached(config, env) == ResolveFromEnv(env)

\* get_abraflexi_config() run with the global at `config` under environment `env`:
\* config is the global afterwards, ret the value returned (None when the call
\* raised), raised the message of the ValueError, reads the variables it read.
get_abraflexi_config(config, env) ==
    IF config # None
    THEN [config |-> config, ret |-> config, raised |-> "", reads |-> {}]
    ELSE ResolveFromEnv(env)

\* A flag that is off when READ_ONLY is unset.
is_read_only_default_off(env) ==
    lower(getenv_default(env, "READ_ONLY", "false")) \in {"true", "1", "yes"}

\* is_read_only()
is_read_only(env) ==
    lower(getenv_default(env, "READ_ONLY", "true")) \in {"true", "1", "yes"}

ERR_READ_ONLY == "Server is in read-only mode - write operations are not allowed"

\* A gate that lets every write through.
validate_read_only_off(env) == ""

\* validate_read_only(): the message raised, "" when writes are allowed.
validate_read_only(env) == IF is_read_only(env) THEN ERR_READ_ONLY ELSE ""

---------------------------------------------------------------------------
(* Values passed to and from the client library, and format_response.      *)
(* A value is a record [t, b, n, s, keys, items]: t names the Python type, *)
(* b, n and s hold a bool, an int and a str, items the elements of a list  *)
(* or the values of a dict whose keys are in keys.                         *)

PyNone == [t |-> "none", b |-> FALSE, n |-> 0, s |-> "", keys |-> <<>>, items |-> <<>>]

PyBool(b) == [t |-> "bool", b |-> b, n |-> 0, s |-> "", keys |-> <<>>, items |-> <<>>]

PyInt(n) == [t |-> "int", b |-> FALSE, n |-> n, s |-> "", keys |-> <<>>, items |-> <<>>]

PyStr(s) == [t |-> "str", b |-> FALSE, n |-> 0, s |-> s, keys |-> <<>>, items |-> <<>>]

PyList(items) ==
    [t |-> "list", b |-> FALSE, n |-> 0, s |-> "", keys |-> <<>>, items |-> items]

PyDict(keys, items) ==
    [t |-> "dict", b |-> FALSE, n |-> 0, s |-> "", keys |-> keys, items |-> items]

\* An Optional[str] as a value.
PyOptStr(o) == IF o = None THEN PyNone ELSE PyStr(o[1])

RECURSIVE Spaces(_)
Spaces(n) == IF n = 0 THEN "" ELSE " " \o Spaces(n - 1)

\* json.dumps(v, indent=2, ensure_ascii=False) at nesting depth `depth`. The strings
\* of the model hold no character JSON escapes.
RECURSIVE dumps_indent(_, _)
dumps_indent(v, depth) ==
    LET RECURSIVE Members(_)
        Members(i) ==
            LET member == Spaces(2 * (depth + 1))
                          \o (IF v.t = "dict" THEN "\"" \o v.keys[i] \o "\": " ELSE "")
                          \o dumps_indent(v.items[i], depth + 1)
            IN  IF i = Len(v.items) THEN member ELSE member \o ",\n" \o Members(i + 1)
        open == IF v.t = "dict" THEN "{" ELSE "["
        close == IF v.t = "dict" THEN "}" ELSE "]"
    IN  CASE v.t = "none" -> "null"
          [] v.t = "bool" -> IF v.b THEN "true" ELSE "false"
          [] v.t = "int" -> str(v.n)
          [] v.t = "str" -> "\"" \o v.s \o "\""
          [] OTHER ->
               IF v.items = <<>> THEN open \o close
               ELSE open \o "\n" \o Members(1) \o "\n" \o Spaces(2 * depth) \o close

\* A formatter that prints a boolean as it prints any other value.
format_response_bool_as_value(data) == dumps_indent(data, 0)

\* format_response(data)
format_response(data) ==
    IF data.t = "bool"
    THEN "{\"success\": " \o (IF data.b THEN "true" ELSE "false") \o "}"
    ELSE dumps_indent(data, 0)

---------------------------------------------------------------------------
(* The client factory and the evidence handle.                             *)

\* A handle as its constructor leaves it: the options it was built from, no filter,
\* no query parameter, an empty write buffer. filter, detail and limit are Optional
\* (None: not set); data lists the set_data_value calls in order.
NewHandle(mode, evidence, config) ==
    [mode |-> mode, evidence |-> evidence, options |-> config,
     filter |-> None, detail |-> None, limit |-> None, data |-> <<>>,
     last_inserted_id |-> PyNone]

\* What a factory call yields: the get_abraflexi_config result plus the handle
\* (None when the resolution raised).
MakeClient(mode, evidence, config, env) ==
    LET r == get_abraflexi_config(config, env)
    IN  [config |-> r.config, ret |-> r.ret, raised |-> r.raised, reads |-> r.reads,
         handle |-> IF r.raised = "" THEN Some(NewHandle(mode, evidence, r.ret[1]))
                    ELSE None]

\* get_readonly_client(evidence)
get_readonly_client(evidence, config, env) == MakeClient("ReadOnly", evidence, config, env)

\* get_readwrite_client(evidence)
get_readwrite_client(evidence, config, env) == MakeClient("ReadWrite", evidence, config, env)

---------------------------------------------------------------------------
(* A tool invocation: what it was given, what it did and how it ended.     *)
(*   reads     the environment variables the invocation read               *)
(*   config_calls  how many times it called get_abraflexi_config           *)
(*   resolved  what get_abraflexi_config returned to it (None: not called, *)
(*             or it raised)                                               *)
(*   handles   the handles it constructed, as they were when it ended      *)
(*   calls     the client calls it made, in order: [op, arg, ok, ret]      *)
(*   raised    the message of the exception that ended it, "" if none      *)
(*   result    the text it returned, "" if it raised                       *)

NoCall ==
    [tool |-> "", args |-> <<>>, reads |-> {}, config_calls |-> 0, resolved |-> None,
     handles |-> <<>>, calls |-> <<>>, raised |-> "", result |-> ""]

\* A client call: op names the method, arg its argument, ok is FALSE when the
\* client raised, ret is what it returned.
ClientCall(op, arg, outcome) ==
    [op |-> op, arg |-> arg, ok |-> outcome.raised = "", ret |-> outcome.ret]

\* The value of the global and of the invocation once it ended.
Ended(tool, args, reads, client, handles, calls, raised, result) ==
    [config |-> client.config,
     call |-> [tool |-> tool, args |-> args, reads |-> reads \cup client.reads,
               config_calls |-> 1, resolved |-> client.ret, handles |-> handles,
               calls |-> calls, raised |-> raised, result |-> result]]

\* An invocation that ended before it reached the client factory.
EndedEarly(tool, args, reads, config, raised) ==
    [config |-> config,
     call |-> [tool |-> tool, args |-> args, reads |-> reads, config_calls |-> 0,
               resolved |-> None, handles |-> <<>>, calls |-> <<>>, raised |-> raised,
               result |-> ""]]

---------------------------------------------------------------------------
(* The get tools. `fetched` is what get_all_from_abraflexi does when it is *)
(* called: [raised, ret].                                                  *)

\* f"id in ({','.join(ids)})"
IdsClause(ids) == "id in (" \o join(",", ids) \o ")"

\* f"kod='{kod}'"
KodClause(kod) == "kod='" \o kod \o "'"

\* f"nazev like '*{nazev}*'"
NazevClause(nazev) == "nazev like '*" \o nazev \o "*'"

\* A `filters` list with the code predicate first.
InvoiceFilters_kod_first(a) ==
    (IF Truthy(a.kod) THEN <<KodClause(a.kod[1])>> ELSE <<>>)
    \o (IF TruthyList(a.ids) THEN <<IdsClause(a.ids[1])>> ELSE <<>>)

\* The `filters` list of the invoice get tools.
InvoiceFilters(a) ==
    (IF TruthyList(a.ids) THEN <<IdsClause(a.ids[1])>> ELSE <<>>)
    \o (IF Truthy(a.kod) THEN <<KodClause(a.kod[1])>> ELSE <<>>)

\* The `filters` list of contact_get and product_get.
NamedFilters(a) ==
    InvoiceFilters(a)
    \o (IF Truthy(a.nazev) THEN <<NazevClause(a.nazev[1])>> ELSE <<>>)

\* if filters: client.filter = " AND ".join(filters)
SetFilters(h, filters) ==
    IF filters # <<>> THEN [h EXCEPT !.filter = Some(join(" AND ", filters))] ELSE h

\* The filter of bank_transaction_get: the id clause alone.
BankFilter(h, a) ==
    IF TruthyList(a.ids) THEN [h EXCEPT !.filter = Some(IdsClause(a.ids[1]))] ELSE h

\* A generic filter that joins the id clause and filter_expr with AND.
EvidenceFilter_and_combined(h, a) ==
    IF TruthyList(a.ids) /\ Truthy(a.filter_expr)
    THEN [h EXCEPT !.filter = Some(IdsClause(a.ids[1]) \o " AND " \o a.filter_expr[1])]
    ELSE IF TruthyList(a.ids) THEN [h EXCEPT !.filter = Some(IdsClause(a.ids[1]))]
    ELSE IF Truthy(a.filter_expr) THEN [h EXCEPT !.filter = a.filter_expr]
    ELSE h

\* The filter of evidence_get: the id clause, else the raw expression.
EvidenceFilter(h, a) ==
    IF TruthyList(a.ids) THEN [h EXCEPT !.filter = Some(IdsClause(a.ids[1]))]
    ELSE IF Truthy(a.filter_expr) THEN [h EXCEPT !.filter = a.filter_expr]
    ELSE h

\* A detail parameter left out when it is the default.
SetDetail_unless_default(h, detail) ==
    IF detail = "summary" THEN h ELSE [h EXCEPT !.detail = Some(detail)]

\* client.default_url_params["detail"] = detail
SetDetail(h, detail) == [h EXCEPT !.detail = Some(detail)]

\* if limit: client.default_url_params["limit"] = limit
SetLimit(h, limit) == IF TruthyInt(limit) THEN [h EXCEPT !.limit = limit] ELSE h

\* A get tail that fetches a second time when the fetch raised.
FetchAndFormat_retry(tool, a, client, h, fetched) ==
    LET ready == SetLimit(SetDetail(h, WithDefault(a.detail, "summary")), a.limit)
        fetch == ClientCall("get_all_from_abraflexi", PyNone, fetched)
    IN  IF fetched.raised # ""
        THEN Ended(tool, a, {}, client, <<ready>>, <<fetch, fetch>>, fetched.raised, "")
        ELSE Ended(tool, a, {}, client, <<ready>>, <<fetch>>, "",
                   format_response(fetched.ret))

\* The shared tail of every get tool: the query parameters, the fetch, the result.
\* `h` is the handle with its filter set.
FetchAndFormat(tool, a, client, h, fetched) ==
    LET ready == SetLimit(SetDetail(h, WithDefault(a.detail, "summary")), a.limit)
        fetch == ClientCall("get_all_from_abraflexi", PyNone, fetched)
    IN  IF fetched.raised # ""
        THEN Ended(tool, a, {}, client, <<ready>>, <<fetch>>, fetched.raised, "")
        ELSE Ended(tool, a, {}, client, <<ready>>, <<fetch>>, "",
                   format_response(fetched.ret))

\* Each get tool: the factory call, the filter, then the shared tail.
invoice_issued_get(a, config, env, fetched) ==
    LET client == get_readonly_client("faktura-vydana", config, env)
    IN  IF client.raised # ""
        THEN Ended("invoice_issued_get", a, {}, client, <<>>, <<>>, client.raised, "")
        ELSE FetchAndFormat("invoice_issued_get", a, client,
                            SetFilters(client.handle[1], InvoiceFilters(a)), fetched)

invoice_received_get(a, config, env, fetched) ==
    LET client == get_readonly_client("faktura-prijata", config, env)
    IN  IF client.raised # ""
        THEN Ended("invoice_received_get", a, {}, client, <<>>, <<>>, client.raised, "")
        ELSE FetchAndFormat("invoice_received_get", a, client,
                            SetFilters(client.handle[1], InvoiceFilters(a)), fetched)

contact_get(a, config, env, fetched) ==
    LET client == get_readonly_client("adresar", config, env)
    IN  IF client.raised # ""
        THEN Ended("contact_get", a, {}, client, <<>>, <<>>, client.raised, "")
        ELSE FetchAndFormat("contact_get", a, client,
                            SetFilters(client.handle[1], NamedFilters(a)), fetched)

product_get(a, config, env, fetched) ==
    LET client == get_readonly_client("cenik", config, env)
    IN  IF client.raised # ""
        THEN Ended("product_get", a, {}, client, <<>>, <<>>, client.raised, "")
        ELSE FetchAndFormat("product_get", a, client,
                            SetFilters(client.handle[1], NamedFilters(a)), fetched)

bank_transaction_get(a, config, env, fetched) ==
    LET client == get_readonly_client("banka", config, env)
    IN  IF client.raised # ""
        THEN Ended("bank_transaction_get", a, {}, client, <<>>, <<>>, client.raised, "")
        ELSE FetchAndFormat("bank_transaction_get", a, client,
                            BankFilter(client.handle[1], a), fetched)

evidence_get(a, config, env, fetched) ==
    LET client == get_readonly_client(a.evidence, config, env)
    IN  IF client.raised # ""
        THEN Ended("evidence_get", a, {}, client, <<>>, <<>>, client.raised, "")
        ELSE FetchAndFormat("evidence_get", a, client,
                            EvidenceFilter(client.handle[1], a), fetched)

---------------------------------------------------------------------------
(* The write tools. `loaded`, `inserted`, `written` are what the client's  *)
(* load_from_abraflexi, insert_to_abraflexi and update or delete do when   *)
(* they are called: [raised, ret], and for an insert also id, the handle's *)
(* last_inserted_id afterwards.                                            *)

ERR_NO_IDENTIFIER == "Either id or kod must be provided"

\* bool(x) of an Optional[Dict]
TruthyDict(o) == o # None /\ o[1].keys # <<>>

\* f"{identifier}" for an int or a str.
Format(v) == IF v.t = "int" THEN str(v.n) ELSE v.s

\* client.set_data_value(key, value)
set_data_value(h, key, value) ==
    [h EXCEPT !.data = Append(@, [key |-> key, value |-> value])]

\* for key, value in d.items(): client.set_data_value(key, value)
RECURSIVE SetItems(_, _, _)
SetItems(h, d, i) ==
    IF i > Len(d.keys) THEN h
    ELSE SetItems(set_data_value(h, d.keys[i], d.items[i]), d, i + 1)

\* A mapping that is never applied.
SetOptionalItems_ignored(h, o) == h

\* if d: for key, value in d.items(): client.set_data_value(key, value)
SetOptionalItems(h, o) == IF TruthyDict(o) THEN SetItems(h, o[1], 1) ELSE h

\* if value: client.set_data_value(key, value), for an Optional[str]
SetIfTruthy(h, key, o) == IF Truthy(o) THEN set_data_value(h, key, PyStr(o[1])) ELSE h

\* An identifier that prefers kod when both are given.
Identifier_kod_first(a) ==
    IF Truthy(a.kod)
    THEN [raised |-> "", value |-> PyStr("code:" \o a.kod[1])]
    ELSE IF int(WithDefault(a.id, "")).ok
    THEN [raised |-> "", value |-> PyInt(int(a.id[1]).val)]
    ELSE [raised |-> ERR_INT(WithDefault(a.id, "")), value |-> PyNone]

\* identifier = int(id) if id else f"code:{kod}": [raised, value]
Identifier(a) ==
    IF Truthy(a.id)
    THEN IF int(a.id[1]).ok
         THEN [raised |-> "", value |-> PyInt(int(a.id[1]).val)]
         ELSE [raised |-> ERR_INT(a.id[1]), value |-> PyNone]
    ELSE [raised |-> "", value |-> PyStr("code:" \o WithDefault(a.kod, "None"))]

\* A check that takes an empty string for an identifier.
NoIdentifier_none_only(a) == a.id = None /\ a.kod = None

\* if not id and not kod
NoIdentifier(a) == ~Truthy(a.id) /\ ~Truthy(a.kod)

\* A load whose result is not looked at.
Loaded_unchecked(loaded) == TRUE

\* The truth value of what client.load_from_abraflexi(identifier) returned.
Loaded(loaded) == loaded.ret.b

\* {"success": result}
SuccessOnly(ret) == PyDict(<<"success">>, <<ret>>)

\* The record the remote system holds under the identifiers of the model.
LoadedRecord ==
    <<[key |-> "email", value |-> PyStr("old@b.cz")],
      [key |-> "nazev", value |-> PyStr("Old")]>>

\* client.load_from_abraflexi(identifier), on the handle: a load that finds the
\* record leaves it in the handle's data, where set_data_value writes over it.
load_from_abraflexi(h, loaded) ==
    IF loaded.raised = "" /\ loaded.ret.b THEN [h EXCEPT !.data = LoadedRecord] ELSE h

\* An update tool. `notfound` is the prefix of its not-found message.
UpdateTool(tool, evidence, notfound, a, config, env, loaded, written) ==
    LET gate == validate_read_only(env)
        ident == Identifier(a)
        client == get_readwrite_client(evidence, config, env)
        load == ClientCall("load_from_abraflexi", ident.value, loaded)
        h == SetOptionalItems(load_from_abraflexi(client.handle[1], loaded), a.data)
        write == ClientCall("update", PyNone, written)
    IN  IF gate # "" THEN EndedEarly(tool, a, {"READ_ONLY"}, config, gate)
        ELSE IF NoIdentifier(a)
        THEN EndedEarly(tool, a, {"READ_ONLY"}, config, ERR_NO_IDENTIFIER)
        ELSE IF ident.raised # ""
        THEN EndedEarly(tool, a, {"READ_ONLY"}, config, ident.raised)
        ELSE IF client.raised # ""
        THEN Ended(tool, a, {"READ_ONLY"}, client, <<>>, <<>>, client.raised, "")
        ELSE IF loaded.raised # ""
        THEN Ended(tool, a, {"READ_ONLY"}, client, <<client.handle[1]>>, <<load>>,
                   loaded.raised, "")
        ELSE IF ~Loaded(loaded)
        THEN Ended(tool, a, {"READ_ONLY"}, client, <<client.handle[1]>>, <<load>>,
                   notfound \o Format(ident.value), "")
        ELSE IF written.raised # ""
        THEN Ended(tool, a, {"READ_ONLY"}, client, <<h>>, <<load, write>>,
                   written.raised, "")
        ELSE Ended(tool, a, {"READ_ONLY"}, client, <<h>>, <<load, write>>, "",
                   format_response(SuccessOnly(written.ret)))

\* A delete tool that builds its client before it looks at its identifier.
DeleteTool_config_first(tool, evidence, notfound, a, config, env, loaded, written) ==
    LET gate == validate_read_only(env)
        ident == Identifier(a)
        client == get_readwrite_client(evidence, config, env)
        load == ClientCall("load_from_abraflexi", ident.value, loaded)
        h == load_from_abraflexi(client.handle[1], loaded)
        write == ClientCall("delete", PyNone, written)
    IN  IF gate # "" THEN EndedEarly(tool, a, {"READ_ONLY"}, config, gate)
        ELSE IF client.raised # ""
        THEN Ended(tool, a, {"READ_ONLY"}, client, <<>>, <<>>, client.raised, "")
        ELSE IF NoIdentifier(a)
        THEN Ended(tool, a, {"READ_ONLY"}, client, <<>>, <<>>, ERR_NO_IDENTIFIER, "")
        ELSE IF ident.raised # ""
        THEN Ended(tool, a, {"READ_ONLY"}, client, <<>>, <<>>, ident.raised, "")
        ELSE IF loaded.raised # ""
        THEN Ended(tool, a, {"READ_ONLY"}, client, <<h>>, <<load>>, loaded.raised, "")
        ELSE IF ~Loaded(loaded)
        THEN Ended(tool, a, {"READ_ONLY"}, client, <<h>>, <<load>>,
                   notfound \o Format(ident.value), "")
        ELSE IF written.raised # ""
        THEN Ended(tool, a, {"READ_ONLY"}, client, <<h>>, <<load, write>>,
                   written.raised, "")
        ELSE Ended(tool, a, {"READ_ONLY"}, client, <<h>>, <<load, write>>, "",
                   format_response(SuccessOnly(written.ret)))

\* A delete tool.
DeleteTool(tool, evidence, notfound, a, config, env, loaded, written) ==
    LET gate == validate_read_only(env)
        ident == Identifier(a)
        client == get_readwrite_client(evidence, config, env)
        load == ClientCall("load_from_abraflexi", ident.value, loaded)
        h == load_from_abraflexi(client.handle[1], loaded)
        write == ClientCall("delete", PyNone, written)
    IN  IF gate # "" THEN EndedEarly(tool, a, {"READ_ONLY"}, config, gate)
        ELSE IF NoIdentifier(a)
        THEN EndedEarly(tool, a, {"READ_ONLY"}, config, ERR_NO_IDENTIFIER)
        ELSE IF ident.raised # ""
        THEN EndedEarly(tool, a, {"READ_ONLY"}, config, ident.raised)
        ELSE IF client.raised # ""
        THEN Ended(tool, a, {"READ_ONLY"}, client, <<>>, <<>>, client.raised, "")
        ELSE IF loaded.raised # ""
        THEN Ended(tool, a, {"READ_ONLY"}, client, <<h>>, <<load>>, loaded.raised, "")
        ELSE IF ~Loaded(loaded)
        THEN Ended(tool, a, {"READ_ONLY"}, client, <<h>>, <<load>>,
                   notfound \o Format(ident.value), "")
        ELSE IF written.raised # ""
        THEN Ended(tool, a, {"READ_ONLY"}, client, <<h>>, <<load, write>>,
                   written.raised, "")
        ELSE Ended(tool, a, {"READ_ONLY"}, client, <<h>>, <<load, write>>, "",
                   format_response(SuccessOnly(written.ret)))

invoice_issued_update(a, config, env, loaded, written) ==
    UpdateTool("invoice_issued_update", "faktura-vydana", "Invoice not found: ",
               a, config, env, loaded, written)

invoice_issued_delete(a, config, env, loaded, written) ==
    DeleteTool("invoice_issued_delete", "faktura-vydana", "Invoice not found: ",
               a, config, env, loaded, written)

contact_update(a, config, env, loaded, written) ==
    UpdateTool("contact_update", "adresar", "Contact not found: ",
               a, config, env, loaded, written)

contact_delete(a, config, env, loaded, written) ==
    DeleteTool("contact_delete", "adresar", "Contact not found: ",
               a, config, env, loaded, written)

product_update(a, config, env, loaded, written) ==
    UpdateTool("product_update", "cenik", "Product not found: ",
               a, config, env, loaded, written)

product_delete(a, config, env, loaded, written) ==
    DeleteTool("product_delete", "cenik", "Product not found: ",
               a, config, env, loaded, written)

evidence_update(a, config, env, loaded, written) ==
    UpdateTool("evidence_update", a.evidence,
               "Record not found in " \o a.evidence \o ": ",
               a, config, env, loaded, written)

evidence_delete(a, config, env, loaded, written) ==
    DeleteTool("evidence_delete", a.evidence,
               "Record not found in " \o a.evidence \o ": ",
               a, config, env, loaded, written)

\* A create tail that reads the id of the handle before the insert.
InsertAndFormat_id_before_insert(tool, a, client, h, inserted, echoKeys, echoItems) ==
    LET insert == ClientCall("insert_to_abraflexi", PyNone, inserted)
        after == [h EXCEPT !.last_inserted_id = inserted.id]
    IN  IF inserted.raised # ""
        THEN Ended(tool, a, {"READ_ONLY"}, client, <<h>>, <<insert>>, inserted.raised, "")
        ELSE Ended(tool, a, {"READ_ONLY"}, client, <<after>>, <<insert>>, "",
                   format_response(PyDict(<<"success", "id">> \o echoKeys,
                                          <<inserted.ret, h.last_inserted_id>>
                                          \o echoItems)))

\* The shared tail of every create tool: the insert and the result. `h` is the
\* handle with its fields set; echoKeys and echoItems are what the result holds
\* after "success" and "id".
InsertAndFormat(tool, a, client, h, inserted, echoKeys, echoItems) ==
    LET insert == ClientCall("insert_to_abraflexi", PyNone, inserted)
        after == [h EXCEPT !.last_inserted_id = inserted.id]
    IN  IF inserted.raised # ""
        THEN Ended(tool, a, {"READ_ONLY"}, client, <<h>>, <<insert>>, inserted.raised, "")
        ELSE Ended(tool, a, {"READ_ONLY"}, client, <<after>>, <<insert>>, "",
                   format_response(PyDict(<<"success", "id">> \o echoKeys,
                                          <<inserted.ret, after.last_inserted_id>>
                                          \o echoItems)))

\* A create tool up to its handle: refused by the gate, failed in the factory, or
\* "" when the handle is there.
CreateStopped(tool, a, config, env, client) ==
    LET gate == validate_read_only(env)
    IN  IF gate # "" THEN EndedEarly(tool, a, {"READ_ONLY"}, config, gate)
        ELSE Ended(tool, a, {"READ_ONLY"}, client, <<>>, <<>>, client.raised, "")

\* The gate let the tool through and the factory returned a handle.
HandleReady(env, client) == validate_read_only(env) = "" /\ client.raised = ""

\* Invoice fields with the extra fields written before the named ones.
InvoiceFields_extras_first(h, a) ==
    LET h0 == SetOptionalItems(h, a.extra_fields)
        h1 == set_data_value(h0, "kod", PyStr(a.kod))
        h2 == set_data_value(h1, "firma", PyStr(a.firma))
        h3 == SetIfTruthy(h2, "datVyst", a.datum_vystaveni)
    IN  IF TruthyList(a.polozky)
        THEN set_data_value(h3, "polozkyFaktury", PyList(a.polozky[1]))
        ELSE h3

\* The fields the two invoice create tools set.
InvoiceFields(h, a) ==
    LET h1 == set_data_value(h, "kod", PyStr(a.kod))
        h2 == set_data_value(h1, "firma", PyStr(a.firma))
        h3 == SetIfTruthy(h2, "datVyst", a.datum_vystaveni)
        h4 == IF TruthyList(a.polozky)
              THEN set_data_value(h3, "polozkyFaktury", PyList(a.polozky[1]))
              ELSE h3
    IN  SetOptionalItems(h4, a.extra_fields)

invoice_issued_create(a, config, env, inserted) ==
    LET client == get_readwrite_client("faktura-vydana", config, env)
    IN  IF ~HandleReady(env, client)
        THEN CreateStopped("invoice_issued_create", a, config, env, client)
        ELSE InsertAndFormat("invoice_issued_create", a, client,
                             InvoiceFields(client.handle[1], a), inserted,
                             <<"kod">>, <<PyStr(a.kod)>>)

invoice_received_create(a, config, env, inserted) ==
    LET client == get_readwrite_client("faktura-prijata", config, env)
    IN  IF ~HandleReady(env, client)
        THEN CreateStopped("invoice_received_create", a, config, env, client)
        ELSE InsertAndFormat("invoice_received_create", a, client,
                             InvoiceFields(client.handle[1], a), inserted,
                             <<"kod">>, <<PyStr(a.kod)>>)

contact_create(a, config, env, inserted) ==
    LET client == get_readwrite_client("adresar", config, env)
        h1 == set_data_value(client.handle[1], "kod", PyStr(a.kod))
        h2 == set_data_value(h1, "nazev", PyStr(a.nazev))
        h3 == SetIfTruthy(h2, "email", a.email)
        h4 == SetIfTruthy(h3, "tel", a.tel)
        filled == SetOptionalItems(h4, a.extra_fields)
    IN  IF ~HandleReady(env, client)
        THEN CreateStopped("contact_create", a, config, env, client)
        ELSE InsertAndFormat("contact_create", a, client, filled, inserted,
                             <<"kod">>, <<PyStr(a.kod)>>)

product_create(a, config, env, inserted) ==
    LET client == get_readwrite_client("cenik", config, env)
        h1 == set_data_value(client.handle[1], "kod", PyStr(a.kod))
        h2 == set_data_value(h1, "nazev", PyStr(a.nazev))
        h3 == IF a.cena # None
              THEN set_data_value(h2, "cenaZakl", PyInt(a.cena[1]))
              ELSE h2
        filled == SetOptionalItems(h3, a.extra_fields)
    IN  IF ~HandleReady(env, client)
        THEN CreateStopped("product_create", a, config, env, client)
        ELSE InsertAndFormat("product_create", a, client, filled, inserted,
                             <<"kod">>, <<PyStr(a.kod)>>)

bank_transaction_create(a, config, env, inserted) ==
    LET client == get_readwrite_client("banka", config, env)
        h1 == set_data_value(client.handle[1], "banka", PyStr(a.banka))
        h2 == set_data_value(h1, "datum", PyStr(a.datum))
        h3 == set_data_value(h2, "castka", PyInt(a.castka))
        h4 == SetIfTruthy(h3, "popis", a.popis)
        filled == SetOptionalItems(h4, a.extra_fields)
    IN  IF ~HandleReady(env, client)
        THEN CreateStopped("bank_transaction_create", a, config, env, client)
        ELSE InsertAndFormat("bank_transaction_create", a, client, filled, inserted,
                             <<>>, <<>>)

evidence_create(a, config, env, inserted) ==
    LET client == get_readwrite_client(a.evidence, config, env)
    IN  IF ~HandleReady(env, client)
        THEN CreateStopped("evidence_create", a, config, env, client)
        ELSE InsertAndFormat("evidence_create", a, client,
                             SetItems(client.handle[1], a.data, 1), inserted,
                             <<>>, <<>>)

\* evidence_list(): the catalogue is a literal of the source.
EVIDENCES ==
    << <<"faktura-vydana", "Issued invoices">>,
       <<"faktura-prijata", "Received invoices">>,
       <<"adresar", "Contacts and companies">>,
       <<"cenik", "Products and services">>,
       <<"banka", "Bank transactions">>,
       <<"pokladna", "Cash transactions">>,
       <<"nabidka-vydana", "Issued quotes">>,
       <<"objednavka-vydana", "Issued orders">>,
       <<"objednavka-prijata", "Received orders">>,
       <<"dodaci-list", "Delivery notes">>,
       <<"sklad", "Warehouse/stock">>,
       <<"cenova-uroven", "Price levels">>,
       <<"typ-smlouvy", "Contract types">> >>

\* An evidence_list that asks for the configuration first.
evidence_list_needs_config(config) ==
    LET entry(e) == PyDict(<<"name", "description">>, <<PyStr(e[1]), PyStr(e[2])>>)
        evidences == [i \in 1..Len(EVIDENCES) |-> entry(EVIDENCES[i])]
    IN  IF config = None
        THEN [config |-> config,
              call |-> [NoCall EXCEPT !.tool = "evidence_list", !.config_calls = 1,
                                      !.raised = ERR_URL]]
        ELSE [config |-> config,
              call |-> [NoCall EXCEPT !.tool = "evidence_list", !.config_calls = 1,
                                      !.resolved = config,
                                      !.result = format_response(PyList(evidences))]]

evidence_list(config) ==
    LET entry(e) == PyDict(<<"name", "description">>, <<PyStr(e[1]), PyStr(e[2])>>)
        evidences == [i \in 1..Len(EVIDENCES) |-> entry(EVIDENCES[i])]
    IN  [config |-> config,
         call |-> [NoCall EXCEPT !.tool = "evidence_list",
                                 !.result = format_response(PyList(evidences))]]

---------------------------------------------------------------------------
(* The inputs of the model.                                                *)

MaxIds == 2

MaxLimit == 1

\* The id lists: None, [], ["1"], ["1", "2"], ...
IdLists == {None} \cup {Some([i \in 1..n |-> str(i)]) : n \in 0..MaxIds}

Kods == {None, Some(""), Some("X1")}

Names == {None, Some(""), Some("Nov")}

FilterExprs == {None, Some(""), Some("stavUhrK is empty")}

Limits == {None} \cup {Some(n) : n \in 0..MaxLimit}

Details == {None, Some("full")}

Evidences == {"adresar", "pokladna"}

\* The id of an update or delete: absent, empty, a number, the same number written
\* with a leading zero, and a string that is no number.
Ids == {None, Some(""), Some("7"), Some("07"), Some("7a")}

Record1 == PyDict(<<"id", "kod">>, <<PyInt(1), PyStr("X1")>>)

UPSTREAM == "HTTP 401 Unauthorized"

\* What a client call can do: raise, or return.
FetchOutcomes ==
    {[raised |-> UPSTREAM, ret |-> PyNone],
     [raised |-> "", ret |-> PyList(<<>>)],
     [raised |-> "", ret |-> PyList(<<Record1>>)]}

BoolOutcomes ==
    {[raised |-> UPSTREAM, ret |-> PyNone],
     [raised |-> "", ret |-> PyBool(TRUE)],
     [raised |-> "", ret |-> PyBool(FALSE)]}

InsertOutcomes ==
    {[raised |-> UPSTREAM, ret |-> PyNone, id |-> PyNone],
     [raised |-> "", ret |-> PyBool(TRUE), id |-> PyInt(101)],
     [raised |-> "", ret |-> PyBool(FALSE), id |-> PyNone]}

\* The kod of an update or delete.
IdentKods == {None, Some(""), Some("C1")}

\* The data of an update.
UpdateData ==
    {None, Some(PyDict(<<>>, <<>>)), Some(PyDict(<<"email">>, <<PyStr("a@b.cz")>>))}

\* The extra_fields of a create.
ExtraFields ==
    {None, Some(PyDict(<<>>, <<>>)),
     Some(PyDict(<<"email", "kod">>, <<PyStr("a@b.cz"), PyStr("Z9")>>))}

InvoiceGetArgs == [ids : IdLists, kod : Kods, limit : Limits, detail : Details]

NamedGetArgs ==
    [ids : IdLists, kod : Kods, nazev : Names, limit : Limits, detail : Details]

BankGetArgs == [ids : IdLists, limit : Limits, detail : Details]

EvidenceGetArgs ==
    [evidence : Evidences, ids : IdLists, filter_expr : FilterExprs, limit : Limits,
     detail : Details]

UpdateArgs == [id : Ids, kod : IdentKods, data : UpdateData]

DeleteArgs == [id : Ids, kod : IdentKods]

EvidenceUpdateArgs == [evidence : Evidences, id : Ids, kod : IdentKods, data : UpdateData]

EvidenceDeleteArgs == [evidence : Evidences, id : Ids, kod : IdentKods]

InvoiceCreateArgs ==
    [kod : {"INV001"}, firma : {"code:CUST1"}, datum_vystaveni : {None, Some("2024-01-31")},
     polozky : {None, Some(<<PyDict(<<"nazev">>, <<PyStr("work")>>)>>)},
     extra_fields : ExtraFields]

ContactCreateArgs ==
    [kod : {"C1"}, nazev : {"Novak"}, email : {None, Some("n@b.cz")},
     tel : {None, Some("")}, extra_fields : ExtraFields]

ProductCreateArgs ==
    [kod : {"P1"}, nazev : {"Nut"}, cena : {None, Some(0), Some(5)}, extra_fields : ExtraFields]

BankCreateArgs ==
    [banka : {"code:BANK01"}, datum : {"2024-01-31"}, castka : {100},
     popis : {None, Some("rent")}, extra_fields : ExtraFields]

EvidenceCreateArgs ==
    [evidence : Evidences,
     data : {PyDict(<<>>, <<>>), PyDict(<<"nazev", "kod">>, <<PyStr("A"), PyStr("B")>>)}]

---------------------------------------------------------------------------
(* Process start.                                                          *)

\* The variables the entry points read besides the connection variables.
McpVars ==
    {"ABRAFLEXI_MCP_TRANSPORT", "AUTH_TYPE", "ABRAFLEXI_MCP_HOST",
     "ABRAFLEXI_MCP_PORT", "ABRAFLEXI_MCP_STATELESS_HTTP"}

\* The two ways the process is launched: scripts/start_server.py and the
\* console script abraflexi-mcp, which setup.py binds to server.main.
Entries == {"start_server", "abraflexi-mcp"}

\* check_environment(): FALSE when URL or COMPANY is missing, when neither a
\* session nor a login with its password is set, when the transport is neither
\* stdio nor streamable-http, or when it is streamable-http and AUTH_TYPE is not
\* no-auth.
check_environment(env) ==
    LET missing_vars ==
            SelectSeq(<<"ABRAFLEXI_URL", "ABRAFLEXI_COMPANY">>,
                      LAMBDA var : ~Truthy(getenv(env, var)))
        session_id == getenv(env, "ABRAFLEXI_AUTHSESSID")
        user == getenv(env, "ABRAFLEXI_LOGIN")
        password == getenv(env, "ABRAFLEXI_PASSWORD")
        transport == lower(getenv_default(env, "ABRAFLEXI_MCP_TRANSPORT", "stdio"))
        auth_type == lower(getenv_default(env, "AUTH_TYPE", ""))
    IN  IF missing_vars # <<>> THEN FALSE
        ELSE IF ~Truthy(session_id) /\ ~(Truthy(user) /\ Truthy(password)) THEN FALSE
        ELSE IF transport \notin {"stdio", "streamable-http"} THEN FALSE
        ELSE IF transport = "streamable-http" /\ auth_type # "no-auth" THEN FALSE
        ELSE TRUE

\* mcp.run() with no argument: the stdio transport, which takes no host, port
\* or stateless flag.
StdioRun == [transport |-> "stdio", host |-> "", port |-> 0, stateless |-> FALSE]

\* mcp.run(transport="streamable-http", host=host, port=port, stateless=stateless)
HttpRun(host, port, stateless) ==
    [transport |-> "streamable-http", host |-> host, port |-> port,
     stateless |-> stateless]

\* An entry point that compares the transport value as it is written.
server_main_case_sensitive(env) ==
    LET transport == getenv_default(env, "ABRAFLEXI_MCP_TRANSPORT", "stdio")
        host == getenv_default(env, "ABRAFLEXI_MCP_HOST", "127.0.0.1")
        port == int(getenv_default(env, "ABRAFLEXI_MCP_PORT", "8000"))
        stateless ==
            lower(getenv_default(env, "ABRAFLEXI_MCP_STATELESS_HTTP", "false"))
                \in {"true", "1", "yes"}
    IN  IF transport = "streamable-http"
        THEN IF port.ok
             THEN [runs |-> <<HttpRun(host, port.val, stateless)>>, raised |-> "",
                   reads |-> {"ABRAFLEXI_MCP_TRANSPORT", "ABRAFLEXI_MCP_HOST",
                              "ABRAFLEXI_MCP_PORT", "ABRAFLEXI_MCP_STATELESS_HTTP"}]
             ELSE [runs |-> <<>>, raised |-> "ValueError",
                   reads |-> {"ABRAFLEXI_MCP_TRANSPORT", "ABRAFLEXI_MCP_HOST",
                              "ABRAFLEXI_MCP_PORT"}]
        ELSE [runs |-> <<StdioRun>>, raised |-> "",
              reads |-> {"ABRAFLEXI_MCP_TRANSPORT"}]

\* server.main() under environment `env`: runs the transports it started, in
\* order, raised the exception that ended it before a transport was started,
\* reads the variables it read.
server_main(env) ==
    LET transport == lower(getenv_default(env, "ABRAFLEXI_MCP_TRANSPORT", "stdio"))
        host == getenv_default(env, "ABRAFLEXI_MCP_HOST", "127.0.0.1")
        port == int(getenv_default(env, "ABRAFLEXI_MCP_PORT", "8000"))
        stateless ==
            lower(getenv_default(env, "ABRAFLEXI_MCP_STATELESS_HTTP", "false"))
                \in {"true", "1", "yes"}
    IN  IF transport = "streamable-http"
        THEN IF port.ok
             THEN [runs |-> <<HttpRun(host, port.val, stateless)>>, raised |-> "",
                   reads |-> {"ABRAFLEXI_MCP_TRANSPORT", "ABRAFLEXI_MCP_HOST",
                              "ABRAFLEXI_MCP_PORT", "ABRAFLEXI_MCP_STATELESS_HTTP"}]
             ELSE [runs |-> <<>>, raised |-> "ValueError",
                   reads |-> {"ABRAFLEXI_MCP_TRANSPORT", "ABRAFLEXI_MCP_HOST",
                              "ABRAFLEXI_MCP_PORT"}]
        ELSE [runs |-> <<StdioRun>>, raised |-> "",
              reads |-> {"ABRAFLEXI_MCP_TRANSPORT"}]

\* A process launched through `entry` that has not run its entry point yet.
Launched(entry) ==
    [pc |-> "launched", entry |-> entry, checked |-> FALSE, status |-> 0,
     runs |-> <<>>, reads |-> {}, raised |-> ""]

\* The process after server.main() ended as r: serving when a transport runs,
\* exited with status 1 when it raised.
AfterMain(p, r) ==
    [p EXCEPT !.pc = IF r.raised = "" THEN "serving" ELSE "exited",
              !.status = IF r.raised = "" THEN 0 ELSE 1,
              !.runs = r.runs, !.reads = r.reads, !.raised = r.raised]

---------------------------------------------------------------------------
(* The tool catalog.                                                       *)

\* A parameter `name: annotation` of a function, with or without a default.
\* Every parameter of server.py is an ordinary named one; none is *args or
\* **kwargs.
P(name, annotation, required) ==
    [name |-> name, annotation |-> annotation, kind |-> "POSITIONAL_OR_KEYWORD",
     required |-> required]

\* A top-level function of server.py: tool says whether @mcp.tool() decorates it.
Fn(name, tool, params) == [name |-> name, tool |-> tool, params |-> params]

\* The top-level functions of server.py in source order.
ModuleFunctions ==
    <<
       Fn("get_abraflexi_config", FALSE,
          <<>>),
       Fn("get_readonly_client", FALSE,
          <<P("evidence", "str", TRUE)>>),
       Fn("get_readwrite_client", FALSE,
          <<P("evidence", "str", TRUE)>>),
       Fn("is_read_only", FALSE,
          <<>>),
       Fn("format_response", FALSE,
          <<P("data", "Any", TRUE)>>),
       Fn("validate_read_only", FALSE,
          <<>>),
       Fn("invoice_issued_get", TRUE,
          <<P("ids", "Optional[List[str]]", FALSE),
             P("kod", "Optional[str]", FALSE),
             P("limit", "Optional[int]", FALSE),
             P("detail", "str", FALSE)>>),
       Fn("invoice_issued_create", TRUE,
          <<P("kod", "str", TRUE),
             P("firma", "str", TRUE),
             P("datum_vystaveni", "Optional[str]", FALSE),
             P("polozky", "Optional[List[Dict[str, Any]]]", FALSE),
             P("extra_fields", "Optional[Dict[str, Any]]", FALSE)>>),
       Fn("invoice_issued_update", TRUE,
          <<P("id", "Optional[str]", FALSE),
             P("kod", "Optional[str]", FALSE),
             P("data", "Optional[Dict[str, Any]]", FALSE)>>),
       Fn("invoice_issued_delete", TRUE,
          <<P("id", "Optional[str]", FALSE),
             P("kod", "Optional[str]", FALSE)>>),
       Fn("invoice_received_get", TRUE,
          <<P("ids", "Optional[List[str]]", FALSE),
             P("kod", "Optional[str]", FALSE),
             P("limit", "Optional[int]", FALSE),
             P("detail", "str", FALSE)>>),
       Fn("invoice_received_create", TRUE,
          <<P("kod", "str", TRUE),
             P("firma", "str", TRUE),
             P("datum_vystaveni", "Optional[str]", FALSE),
             P("polozky", "Optional[List[Dict[str, Any]]]", FALSE),
             P("extra_fields", "Optional[Dict[str, Any]]", FALSE)>>),
       Fn("contact_get", TRUE,
          <<P("ids", "Optional[List[str]]", FALSE),
             P("kod", "Optional[str]", FALSE),
             P("nazev", "Optional[str]", FALSE),
             P("limit", "Optional[int]", FALSE),
             P("detail", "str", FALSE)>>),
       Fn("contact_create", TRUE,
          <<P("kod", "str", TRUE),
             P("nazev", "str", TRUE),
             P("email", "Optional[str]", FALSE),
             P("tel", "Optional[str]", FALSE),
             P("extra_fields", "Optional[Dict[str, Any]]", FALSE)>>),
       Fn("contact_update", TRUE,
          <<P("id", "Optional[str]", FALSE),
             P("kod", "Optional[str]", FALSE),
             P("data", "Optional[Dict[str, Any]]", FALSE)>>),
       Fn("contact_delete", TRUE,
          <<P("id", "Optional[str]", FALSE),
             P("kod", "Optional[str]", FALSE)>>),
       Fn("product_get", TRUE,
          <<P("ids", "Optional[List[str]]", FALSE),
             P("kod", "Optional[str]", FALSE),
             P("nazev", "Optional[str]", FALSE),
             P("limit", "Optional[int]", FALSE),
             P("detail", "str", FALSE)>>),
       Fn("product_create", TRUE,
          <<P("kod", "str", TRUE),
             P("nazev", "str", TRUE),
             P("cena", "Optional[float]", FALSE),
             P("extra_fields", "Optional[Dict[str, Any]]", FALSE)>>),
       Fn("product_update", TRUE,
          <<P("id", "Optional[str]", FALSE),
             P("kod", "Optional[str]", FALSE),
             P("data", "Optional[Dict[str, Any]]", FALSE)>>),
       Fn("product_delete", TRUE,
          <<P("id", "Optional[str]", FALSE),
             P("kod", "Optional[str]", FALSE)>>),
       Fn("bank_transaction_get", TRUE,
          <<P("ids", "Optional[List[str]]", FALSE),
             P("limit", "Optional[int]", FALSE),
             P("detail", "str", FALSE)>>),
       Fn("bank_transaction_create", TRUE,
          <<P("banka", "str", TRUE),
             P("datum", "str", TRUE),
             P("castka", "float", TRUE),
             P("popis", "Optional[str]", FALSE),
             P("extra_fields", "Optional[Dict[str, Any]]", FALSE)>>),
       Fn("evidence_get", TRUE,
          <<P("evidence", "str", TRUE),
             P("ids", "Optional[List[str]]", FALSE),
             P("filter_expr", "Optional[str]", FALSE),
             P("limit", "Optional[int]", FALSE),
             P("detail", "str", FALSE)>>),
       Fn("evidence_create", TRUE,
          <<P("evidence", "str", TRUE),
             P("data", "Dict[str, Any]", TRUE)>>),
       Fn("evidence_update", TRUE,
          <<P("evidence", "str", TRUE),
             P("id", "Optional[str]", FALSE),
             P("kod", "Optional[str]", FALSE),
             P("data", "Optional[Dict[str, Any]]", FALSE)>>),
       Fn("evidence_delete", TRUE,
          <<P("evidence", "str", TRUE),
             P("id", "Optional[str]", FALSE),
             P("kod", "Optional[str]", FALSE)>>),
       Fn("evidence_list", TRUE,
          <<>>),
       Fn("main", FALSE,
          <<>>)
    >>

\* A module whose evidence_list lost its decorator.
ToolFunctions_evidence_list_undecorated ==
    SelectSeq(ModuleFunctions, LAMBDA f : f.tool /\ f.name # "evidence_list")

\* The functions @mcp.tool() decorates, in source order.
ToolFunctions == SelectSeq(ModuleFunctions, LAMBDA f : f.tool)

\* @mcp.tool() applied to fn with the registered tools at `tools`: fn is
\* registered under its own name.
mcp_tool(tools, fn) ==
    IF \E i \in 1..Len(tools) : tools[i].name = fn.name
    THEN [i \in 1..Len(tools) |-> IF tools[i].name = fn.name THEN fn ELSE tools[i]]
    ELSE Append(tools, fn)

\* The registered tools once the first n decorators of the module have run.
RECURSIVE Registered(_)
Registered(n) ==
    IF n = 0 THEN <<>> ELSE mcp_tool(Registered(n - 1), ToolFunctions[n])

\* The server module is imported and no registration test runs.
Imported ==
    [tools |-> Registered(Len(ToolFunctions)), pc |-> "imported", i |-> 1, j |-> 1,
     missing |-> <<>>, passed |-> None]

---------------------------------------------------------------------------
(* The state machine.                                                      *)

\* The connection variables as the process finds them when it starts: nothing
\* set, session authentication, password authentication, a login without its
\* password, no company, and a timeout that is no number.
Deployments ==
    LET unset == [v \in ConnVars |-> None]
        base == [unset EXCEPT !["ABRAFLEXI_URL"] = Some("https://demo.flexibee.eu"),
                              !["ABRAFLEXI_COMPANY"] = Some("demo")]
        password == [base EXCEPT !["ABRAFLEXI_LOGIN"] = Some("winstrom"),
                                 !["ABRAFLEXI_PASSWORD"] = Some("secret")]
    IN  {unset,
         [base EXCEPT !["ABRAFLEXI_AUTHSESSID"] = Some("sess01")],
         password,
         [base EXCEPT !["ABRAFLEXI_LOGIN"] = Some("winstrom")],
         [unset EXCEPT !["ABRAFLEXI_URL"] = Some("https://demo.flexibee.eu")],
         [password EXCEPT !["ABRAFLEXI_TIMEOUT"] = Some("1m")]}

\* The worker threads of the transport.
Threads == {"worker-1", "worker-2"}

\* A worker thread that runs no invocation.
Free == [id |-> 0, pc |-> "free", tool |-> "", args |-> <<>>, ref |-> 0, raised |-> ""]

\* No invocation has been run statement by statement.
NoThreads ==
    /\ heap = <<>>
    /\ running = [t \in Threads |-> Free]
    /\ started = 0

\* The process starts in one of the deployments, READ_ONLY unset, nothing cached.
Init ==
    /\ \E d \in Deployments :
          environ = [v \in EnvVars |-> IF v = "READ_ONLY" THEN None ELSE d[v]]
    /\ abraflexi_config = None
    /\ call = NoCall
    /\ first_config = None
    /\ NoThreads
    /\ process = AfterMain(Launched("abraflexi-mcp"), server_main(environ))
    /\ registry = Imported

\* Between two invocations a variable among `names` is set or unset.
SetEnvIn(names) ==
    /\ call = NoCall
    /\ \E var \in names : \E v \in {None} \cup {Some(x) : x \in EnvStrings(var)} :
          /\ environ[var] # v
          /\ environ' = [environ EXCEPT ![var] = v]
    /\ UNCHANGED <<abraflexi_config, call, first_config, thread_vars>>

\* READ_ONLY changes while the server runs.
SetReadOnly == SetEnvIn({"READ_ONLY"})

\* Any variable changes while the server runs.
SetEnv == SetEnvIn(EnvVars)

\* The transport hands the pending response to the caller.
Respond ==
    /\ call # NoCall
    /\ call' = NoCall
    /\ UNCHANGED <<environ, abraflexi_config, first_config, thread_vars>>

\* No response is pending: the server takes the next request.
Idle == call = NoCall

\* The server runs one tool invocation to its end; r is what the tool yields.
Invoke(r) ==
    /\ abraflexi_config' = r.config
    /\ call' = r.call
    /\ first_config' = IF first_config = None THEN r.call.resolved ELSE first_config
    /\ UNCHANGED <<environ, thread_vars>>

Run_invoice_issued_get ==
    /\ Idle
    /\ \E a \in InvoiceGetArgs, f \in FetchOutcomes :
        Invoke(invoice_issued_get(a, abraflexi_config, environ, f))

Run_invoice_received_get ==
    /\ Idle
    /\ \E a \in InvoiceGetArgs, f \in FetchOutcomes :
        Invoke(invoice_received_get(a, abraflexi_config, environ, f))

Run_contact_get ==
    /\ Idle
    /\ \E a \in NamedGetArgs, f \in FetchOutcomes :
        Invoke(contact_get(a, abraflexi_config, environ, f))

Run_product_get ==
    /\ Idle
    /\ \E a \in NamedGetArgs, f \in FetchOutcomes :
        Invoke(product_get(a, abraflexi_config, environ, f))

Run_bank_transaction_get ==
    /\ Idle
    /\ \E a \in BankGetArgs, f \in FetchOutcomes :
        Invoke(bank_transaction_get(a, abraflexi_config, environ, f))

Run_evidence_get ==
    /\ Idle
    /\ \E a \in EvidenceGetArgs, f \in FetchOutcomes :
        Invoke(evidence_get(a, abraflexi_config, environ, f))

Run_invoice_issued_create ==
    /\ Idle
    /\ \E a \in InvoiceCreateArgs, i \in InsertOutcomes :
        Invoke(invoice_issued_create(a, abraflexi_config, environ, i))

Run_invoice_received_create ==
    /\ Idle
    /\ \E a \in InvoiceCreateArgs, i \in InsertOutcomes :
        Invoke(invoice_received_create(a, abraflexi_config, environ, i))

Run_contact_create ==
    /\ Idle
    /\ \E a \in ContactCreateArgs, i \in InsertOutcomes :
        Invoke(contact_create(a, abraflexi_config, environ, i))

Run_product_create ==
    /\ Idle
    /\ \E a \in ProductCreateArgs, i \in InsertOutcomes :
        Invoke(product_create(a, abraflexi_config, environ, i))

Run_bank_transaction_create ==
    /\ Idle
    /\ \E a \in BankCreateArgs, i \in InsertOutcomes :
        Invoke(bank_transaction_create(a, abraflexi_config, environ, i))

Run_evidence_create ==
    /\ Idle
    /\ \E a \in EvidenceCreateArgs, i \in InsertOutcomes :
        Invoke(evidence_create(a, abraflexi_config, environ, i))

Run_invoice_issued_update ==
    /\ Idle
    /\ \E a \in UpdateArgs, l \in BoolOutcomes, w \in BoolOutcomes :
        Invoke(invoice_issued_update(a, abraflexi_config, environ, l, w))

Run_contact_update ==
    /\ Idle
    /\ \E a \in UpdateArgs, l \in BoolOutcomes, w \in BoolOutcomes :
        Invoke(contact_update(a, abraflexi_config, environ, l, w))

Run_product_update ==
    /\ Idle
    /\ \E a \in UpdateArgs, l \in BoolOutcomes, w \in BoolOutcomes :
        Invoke(product_update(a, abraflexi_config, environ, l, w))

Run_evidence_update ==
    /\ Idle
    /\ \E a \in EvidenceUpdateArgs, l \in BoolOutcomes, w \in BoolOutcomes :
        Invoke(evidence_update(a, abraflexi_config, environ, l, w))

Run_invoice_issued_delete ==
    /\ Idle
    /\ \E a \in DeleteArgs, l \in BoolOutcomes, w \in BoolOutcomes :
        Invoke(invoice_issued_delete(a, abraflexi_config, environ, l, w))

Run_contact_delete ==
    /\ Idle
    /\ \E a \in DeleteArgs, l \in BoolOutcomes, w \in BoolOutcomes :
        Invoke(contact_delete(a, abraflexi_config, environ, l, w))

Run_product_delete ==
    /\ Idle
    /\ \E a \in DeleteArgs, l \in BoolOutcomes, w \in BoolOutcomes :
        Invoke(product_delete(a, abraflexi_config, environ, l, w))

Run_evidence_delete ==
    /\ Idle
    /\ \E a \in EvidenceDeleteArgs, l \in BoolOutcomes, w \in BoolOutcomes :
        Invoke(evidence_delete(a, abraflexi_config, environ, l, w))

Run_evidence_list ==
    /\ Idle
    /\ Invoke(evidence_list(abraflexi_config))

Next ==
    \/ SetReadOnly
    \/ Respond
    \/ Run_invoice_issued_get
    \/ Run_invoice_received_get
    \/ Run_contact_get
    \/ Run_product_get
    \/ Run_bank_transaction_get
    \/ Run_evidence_get
    \/ Run_invoice_issued_create
    \/ Run_invoice_received_create
    \/ Run_contact_create
    \/ Run_product_create
    \/ Run_bank_transaction_create
    \/ Run_evidence_create
    \/ Run_invoice_issued_update
    \/ Run_contact_update
    \/ Run_product_update
    \/ Run_evidence_update
    \/ Run_invoice_issued_delete
    \/ Run_contact_delete
    \/ Run_product_delete
    \/ Run_evidence_delete
    \/ Run_evidence_list

Spec == Init /\ [][Next]_vars

---------------------------------------------------------------------------
(* The same server with every variable of the environment changing while   *)
(* it runs, and invocations that take their parameters' defaults.          *)

\* The process starts with nothing set.
InitEnv ==
    /\ environ = [v \in EnvVars |-> None]
    /\ abraflexi_config = None
    /\ call = NoCall
    /\ first_config = None
    /\ NoThreads
    /\ process = AfterMain(Launched("abraflexi-mcp"), server_main(environ))
    /\ registry = Imported

\* contact_get() with no argument.
Run_contact_get_defaults ==
    /\ Idle
    /\ \E f \in FetchOutcomes :
          Invoke(contact_get([ids |-> None, kod |-> None, nazev |-> None,
                              limit |-> None, detail |-> None],
                             abraflexi_config, environ, f))

\* contact_create(kod="C1", nazev="Novak")
Run_contact_create_defaults ==
    /\ Idle
    /\ \E i \in InsertOutcomes :
          Invoke(contact_create([kod |-> "C1", nazev |-> "Novak", email |-> None,
                                 tel |-> None, extra_fields |-> None],
                                abraflexi_config, environ, i))

NextEnv ==
    \/ SetEnv
    \/ Respond
    \/ Run_contact_get_defaults
    \/ Run_contact_create_defaults
    \/ Run_evidence_list

SpecEnv == InitEnv /\ [][NextEnv]_vars

---------------------------------------------------------------------------
(* The formatter on its own: format_response applied to booleans, scalars, *)
(* records and lists of records.                                           *)

MaxListLen == 2

\* Records with their keys in either order.
FormatRecords ==
    {PyDict(<<>>, <<>>), PyDict(<<"kod">>, <<PyStr("X1")>>),
     PyDict(<<"success">>, <<PyBool(TRUE)>>)}
    \cup {PyDict(<<"id">>, <<PyInt(n)>>) : n \in {1, 2}}
    \cup {PyDict(<<"id", "kod">>, <<PyInt(n), PyStr("X1")>>) : n \in {1, 2}}
    \cup {PyDict(<<"kod", "id">>, <<PyStr("X1"), PyInt(n)>>) : n \in {1, 2}}

FormatLists ==
    UNION {{PyList(items) : items \in [1..n -> FormatRecords]} : n \in 0..MaxListLen}

FormatValues ==
    {PyBool(TRUE), PyBool(FALSE), PyNone, PyInt(0), PyInt(12), PyStr(""), PyStr("X1")}
    \cup FormatRecords \cup FormatLists

\* format_response(v) is called and its text is the pending result.
Run_format_response ==
    /\ Idle
    /\ \E v \in FormatValues :
          call' = [NoCall EXCEPT !.tool = "format_response", !.args = v,
                                 !.result = format_response(v)]
    /\ UNCHANGED <<environ, abraflexi_config, first_config, thread_vars>>

NextFormat == Run_format_response \/ Respond

SpecFormat == InitEnv /\ [][NextFormat]_vars

---------------------------------------------------------------------------
(* Invocations run statement by statement on the worker threads, so that   *)
(* the statements of two invocations interleave. contact_get stands for    *)
(* the get tools and invoice_issued_create for the write tools. A handle   *)
(* is an object on the heap; an invocation reaches it through the          *)
(* reference its local variable `client` holds.                            *)

MaxInvocations == 2

InterleavedGetArgs ==
    [ids : {None}, kod : {None, Some("X1")}, nazev : {None}, limit : {None, Some(1)},
     detail : {None}]

InterleavedCreateArgs ==
    [kod : {"INV001"}, firma : {"code:CUST1"}, datum_vystaveni : {None},
     polozky : {None}, extra_fields : ExtraFields]

Jobs ==
    {[tool |-> "contact_get", args |-> a] : a \in InterleavedGetArgs}
    \cup {[tool |-> "invoice_issued_create", args |-> a] : a \in InterleavedCreateArgs}

\* The process starts in one of the deployments with READ_ONLY unset or false.
InitInterleaved ==
    /\ \E d \in Deployments, ro \in {None, Some("false")} :
          environ = [v \in EnvVars |-> IF v = "READ_ONLY" THEN ro ELSE d[v]]
    /\ abraflexi_config = None
    /\ call = NoCall
    /\ first_config = None
    /\ NoThreads
    /\ process = AfterMain(Launched("abraflexi-mcp"), server_main(environ))
    /\ registry = Imported

\* A factory that hands out a handle of the same kind and evidence again when
\* the heap holds one.
Allocate_pooled(objects, h, id) ==
    LET same == {i \in 1..Len(objects) :
                    /\ objects[i].h.mode = h.mode
                    /\ objects[i].h.evidence = h.evidence}
    IN  IF same # {} THEN [heap |-> objects, ref |-> CHOOSE i \in same : TRUE]
        ELSE [heap |-> Append(objects, [h |-> h, maker |-> id, users |-> {}]),
              ref |-> Len(objects) + 1]

\* ReadOnly(None, options) / ReadWrite(None, options): a new object on the heap;
\* ref is the reference returned. maker and users record which invocation
\* constructed the object and which ones called or assigned through it.
Allocate(objects, h, id) ==
    [heap |-> Append(objects, [h |-> h, maker |-> id, users |-> {}]),
     ref |-> Len(objects) + 1]

\* The invocation `id` leaves the object behind `ref` as h.
Touch(objects, ref, id, h) ==
    [objects EXCEPT ![ref] = [h |-> h, maker |-> @.maker, users |-> @.users \cup {id}]]

\* The thread t goes on to the statement pc.
Goto(t, pc) == running' = [running EXCEPT ![t].pc = pc]

\* The transport hands a request to a free worker thread.
Thread_begin(t) ==
    /\ running[t].pc = "free"
    /\ started < MaxInvocations
    /\ \E job \in Jobs :
          running' = [running EXCEPT ![t] =
                        [id |-> started + 1,
                         pc |-> IF job.tool = "contact_get" THEN "factory" ELSE "gate",
                         tool |-> job.tool, args |-> job.args, ref |-> 0, raised |-> ""]]
    /\ started' = started + 1
    /\ UNCHANGED <<environ, abraflexi_config, call, first_config, heap, process, registry>>

\* validate_read_only()
Thread_gate(t) ==
    /\ running[t].pc = "gate"
    /\ LET gate == validate_read_only(environ)
       IN  running' = [running EXCEPT ![t].pc = IF gate # "" THEN "done" ELSE "factory",
                                      ![t].raised = gate]
    /\ UNCHANGED <<environ, abraflexi_config, call, first_config, heap, started, process, registry>>

\* client = get_readonly_client("adresar") / get_readwrite_client("faktura-vydana")
Thread_factory(t) ==
    /\ running[t].pc = "factory"
    /\ LET get == running[t].tool = "contact_get"
           client == IF get THEN get_readonly_client("adresar", abraflexi_config, environ)
                     ELSE get_readwrite_client("faktura-vydana", abraflexi_config,
                                               environ)
           made == Allocate(heap, client.handle[1], running[t].id)
       IN  /\ abraflexi_config' = client.config
           /\ first_config' = IF first_config = None THEN client.ret ELSE first_config
           /\ IF client.raised # ""
              THEN /\ running' = [running EXCEPT ![t].pc = "done",
                                                 ![t].raised = client.raised]
                   /\ heap' = heap
              ELSE /\ running' = [running EXCEPT ![t].pc = IF get THEN "filter"
                                                           ELSE "fields",
                                                 ![t].ref = made.ref]
                   /\ heap' = made.heap
    /\ UNCHANGED <<environ, call, started, process, registry>>

\* if filters: client.filter = " AND ".join(filters)
Thread_set_filter(t) ==
    /\ running[t].pc = "filter"
    /\ heap' = Touch(heap, running[t].ref, running[t].id,
                     SetFilters(heap[running[t].ref].h, NamedFilters(running[t].args)))
    /\ Goto(t, "detail")
    /\ UNCHANGED <<environ, abraflexi_config, call, first_config, started, process, registry>>

\* client.default_url_params["detail"] = detail
Thread_set_detail(t) ==
    /\ running[t].pc = "detail"
    /\ heap' = Touch(heap, running[t].ref, running[t].id,
                     SetDetail(heap[running[t].ref].h,
                               WithDefault(running[t].args.detail, "summary")))
    /\ Goto(t, "limit")
    /\ UNCHANGED <<environ, abraflexi_config, call, first_config, started, process, registry>>

\* if limit: client.default_url_params["limit"] = limit
Thread_set_limit(t) ==
    /\ running[t].pc = "limit"
    /\ heap' = Touch(heap, running[t].ref, running[t].id,
                     SetLimit(heap[running[t].ref].h, running[t].args.limit))
    /\ Goto(t, "fetch")
    /\ UNCHANGED <<environ, abraflexi_config, call, first_config, started, process, registry>>

\* result = client.get_all_from_abraflexi()
Thread_fetch(t) ==
    /\ running[t].pc = "fetch"
    /\ heap' = Touch(heap, running[t].ref, running[t].id, heap[running[t].ref].h)
    /\ Goto(t, "done")
    /\ UNCHANGED <<environ, abraflexi_config, call, first_config, started, process, registry>>

\* client.set_data_value(...) for the named fields and the extra fields
Thread_set_fields(t) ==
    /\ running[t].pc = "fields"
    /\ heap' = Touch(heap, running[t].ref, running[t].id,
                     InvoiceFields(heap[running[t].ref].h, running[t].args))
    /\ Goto(t, "insert")
    /\ UNCHANGED <<environ, abraflexi_config, call, first_config, started, process, registry>>

\* result = client.insert_to_abraflexi()
Thread_insert(t) ==
    /\ running[t].pc = "insert"
    /\ heap' = Touch(heap, running[t].ref, running[t].id, heap[running[t].ref].h)
    /\ Goto(t, "done")
    /\ UNCHANGED <<environ, abraflexi_config, call, first_config, started, process, registry>>

\* The tool function returns or raises; its local variable `client` is gone.
Thread_return(t) ==
    /\ running[t].pc = "done"
    /\ running' = [running EXCEPT ![t] = Free]
    /\ UNCHANGED <<environ, abraflexi_config, call, first_config, heap, started, process, registry>>

NextInterleaved ==
    \E t \in Threads :
        \/ Thread_begin(t)
        \/ Thread_gate(t)
        \/ Thread_factory(t)
        \/ Thread_set_filter(t)
        \/ Thread_set_detail(t)
        \/ Thread_set_limit(t)
        \/ Thread_fetch(t)
        \/ Thread_set_fields(t)
        \/ Thread_insert(t)
        \/ Thread_return(t)

SpecInterleaved == InitInterleaved /\ [][NextInterleaved]_vars

\* The environments a process is launched in: a deployment with the transport
\* variables unset or set; the transport written in lower case, in mixed case,
\* or naming a transport the server does not have; a port that is a number or
\* not.
McpSettings ==
    [{"ABRAFLEXI_MCP_TRANSPORT"} ->
         {None, Some("stdio"), Some("streamable-http"), Some("Streamable-HTTP"),
          Some("sse")}]
    \X [{"AUTH_TYPE"} -> {None, Some("no-auth")}]
    \X [{"ABRAFLEXI_MCP_HOST"} -> {None, Some("0.0.0.0")}]
    \X [{"ABRAFLEXI_MCP_PORT"} -> {None, Some("9000"), Some("http")}]
    \X [{"ABRAFLEXI_MCP_STATELESS_HTTP"} -> {None, Some("Yes")}]

\* The process is launched through one of the entry points, in one of the
\* deployments, with one setting of the transport variables.
InitStartup ==
    /\ \E d \in Deployments, m \in McpSettings :
          environ =
              [v \in EnvVars \cup McpVars |->
                  IF v = "READ_ONLY" THEN None
                  ELSE IF v \in ConnVars THEN d[v]
                  ELSE LET i == CHOOSE i \in 1..5 : v \in DOMAIN m[i] IN m[i][v]]
    /\ abraflexi_config = None
    /\ call = NoCall
    /\ first_config = None
    /\ NoThreads
    /\ \E entry \in Entries : process = Launched(entry)
    /\ registry = Imported

\* scripts/start_server.py main(): the environment is checked first and a
\* failed check ends the process with status 1; otherwise server.main() runs,
\* and an exception out of it ends the process with status 1.
Launch_start_server ==
    /\ process.pc = "launched"
    /\ process.entry = "start_server"
    /\ process' =
          IF ~check_environment(environ)
          THEN [process EXCEPT !.pc = "exited", !.checked = TRUE, !.status = 1]
          ELSE AfterMain([process EXCEPT !.checked = TRUE], server_main(environ))
    /\ UNCHANGED <<environ, abraflexi_config, call, first_config, heap, running, started,
                   registry>>

\* The console script abraflexi-mcp: server.main() runs at once, and an
\* exception out of it ends the interpreter with status 1.
Launch_console_script ==
    /\ process.pc = "launched"
    /\ process.entry = "abraflexi-mcp"
    /\ process' = AfterMain(process, server_main(environ))
    /\ UNCHANGED <<environ, abraflexi_config, call, first_config, heap, running, started,
                   registry>>

\* The user interrupts the serving process. start_server.py catches the
\* KeyboardInterrupt and returns; under the console script nothing in the
\* source catches it, and the status is the transport's or the interpreter's.
Interrupt ==
    /\ process.pc = "serving"
    /\ \E status \in IF process.entry = "start_server" THEN {0} ELSE {0, 130} :
          process' = [process EXCEPT !.pc = "exited", !.status = status,
                                     !.raised = "KeyboardInterrupt"]
    /\ UNCHANGED <<environ, abraflexi_config, call, first_config, heap, running, started,
                   registry>>

NextStartup ==
    \/ Launch_start_server
    \/ Launch_console_script
    \/ Interrupt

SpecStartup == InitStartup /\ [][NextStartup]_vars

\* expected_tools of test_mcp_tools.
expected_tools ==
    <<"invoice_issued_get", "invoice_issued_create",
      "invoice_issued_update", "invoice_issued_delete",
      "invoice_received_get", "invoice_received_create",
      "contact_get", "contact_create",
      "contact_update", "contact_delete",
      "product_get", "product_create",
      "product_update", "product_delete",
      "bank_transaction_get", "bank_transaction_create",
      "evidence_get", "evidence_create",
      "evidence_update", "evidence_delete",
      "evidence_list">>

\* {**create_tools, **update_tools} of test_mcp_tools, in insertion order.
write_tool_params ==
    <<[name |-> "invoice_issued_create", param_name |-> "extra_fields"],
      [name |-> "invoice_received_create", param_name |-> "extra_fields"],
      [name |-> "contact_create", param_name |-> "extra_fields"],
      [name |-> "product_create", param_name |-> "extra_fields"],
      [name |-> "bank_transaction_create", param_name |-> "extra_fields"],
      [name |-> "invoice_issued_update", param_name |-> "data"],
      [name |-> "contact_update", param_name |-> "data"],
      [name |-> "product_update", param_name |-> "data"],
      [name |-> "evidence_update", param_name |-> "data"]>>

\* The names of the registered tools.
ToolNames(tools) == {tools[i].name : i \in 1..Len(tools)}

\* tools[name]
ToolNamed(tools, name) == tools[CHOOSE i \in 1..Len(tools) : tools[i].name = name]

\* The names in inspect.signature(fn).parameters.
ParamNames(fn) == {fn.params[j].name : j \in 1..Len(fn.params)}

\* The interpreter is about to import the server module: nothing is registered.
InitCatalog ==
    /\ environ = [v \in EnvVars |-> None]
    /\ abraflexi_config = None
    /\ call = NoCall
    /\ first_config = None
    /\ NoThreads
    /\ process = Launched("abraflexi-mcp")
    /\ registry = [Imported EXCEPT !.tools = <<>>, !.pc = "import"]

\* The import runs the next @mcp.tool() decorator of the module.
Import_register ==
    /\ registry.pc = "import"
    /\ Len(registry.tools) < Len(ToolFunctions)
    /\ registry' =
          [registry EXCEPT
              !.tools = mcp_tool(@, ToolFunctions[Len(registry.tools) + 1])]
    /\ UNCHANGED <<environ, abraflexi_config, call, first_config, heap, running,
                   started, process>>

\* The import is over; test_mcp_tools goes on to the expected names.
Import_done ==
    /\ registry.pc = "import"
    /\ Len(registry.tools) = Len(ToolFunctions)
    /\ registry' = [registry EXCEPT !.pc = "expected", !.i = 1]
    /\ UNCHANGED <<environ, abraflexi_config, call, first_config, heap, running,
                   started, process>>

\* missing = [t for t in expected_tools if t not in tools], one name a step;
\* a missing name fails the test.
Test_expected ==
    /\ registry.pc = "expected"
    /\ registry' =
          IF registry.i <= Len(expected_tools)
          THEN [registry EXCEPT
                   !.missing =
                       IF expected_tools[registry.i] \in ToolNames(registry.tools)
                       THEN @ ELSE Append(@, expected_tools[registry.i]),
                   !.i = @ + 1]
          ELSE IF registry.missing # <<>>
          THEN [registry EXCEPT !.pc = "done", !.passed = Some(FALSE)]
          ELSE [registry EXCEPT !.pc = "signatures", !.i = 1, !.j = 1]
    /\ UNCHANGED <<environ, abraflexi_config, call, first_config, heap, running,
                   started, process>>

\* The loop over tools.items() and over each signature's parameters, one
\* parameter a step; a VAR_KEYWORD parameter fails the test.
Test_signature ==
    /\ registry.pc = "signatures"
    /\ registry' =
          IF registry.i > Len(registry.tools)
          THEN [registry EXCEPT !.pc = "write_params", !.i = 1, !.j = 1]
          ELSE IF registry.j > Len(registry.tools[registry.i].params)
          THEN [registry EXCEPT !.i = @ + 1, !.j = 1]
          ELSE IF registry.tools[registry.i].params[registry.j].kind = "VAR_KEYWORD"
          THEN [registry EXCEPT !.pc = "done", !.passed = Some(FALSE)]
          ELSE [registry EXCEPT !.j = @ + 1]
    /\ UNCHANGED <<environ, abraflexi_config, call, first_config, heap, running,
                   started, process>>

\* The loop over the create and update tools, one tool a step; a tool without
\* its mapping parameter fails the test, and the end of the loop passes it.
Test_write_params ==
    /\ registry.pc = "write_params"
    /\ registry' =
          IF registry.i > Len(write_tool_params)
          THEN [registry EXCEPT !.pc = "done", !.passed = Some(TRUE)]
          ELSE IF write_tool_params[registry.i].param_name
                     \notin ParamNames(ToolNamed(registry.tools,
                                                 write_tool_params[registry.i].name))
          THEN [registry EXCEPT !.pc = "done", !.passed = Some(FALSE)]
          ELSE [registry EXCEPT !.i = @ + 1]
    /\ UNCHANGED <<environ, abraflexi_config, call, first_config, heap, running,
                   started, process>>

NextCatalog ==
    \/ Import_register
    \/ Import_done
    \/ Test_expected
    \/ Test_signature
    \/ Test_write_params

SpecCatalog == InitCatalog /\ [][NextCatalog]_vars

---------------------------------------------------------------------------
(* The vocabulary of the properties.                                       *)

GetTools ==
    {"invoice_issued_get", "invoice_received_get", "contact_get", "product_get",
     "bank_transaction_get", "evidence_get"}

CreateTools ==
    {"invoice_issued_create", "invoice_received_create", "contact_create",
     "product_create", "bank_transaction_create", "evidence_create"}

UpdateTools ==
    {"invoice_issued_update", "contact_update", "product_update", "evidence_update"}

DeleteTools ==
    {"invoice_issued_delete", "contact_delete", "product_delete", "evidence_delete"}

WriteTools == CreateTools \cup UpdateTools \cup DeleteTools

\* Read-only mode is enabled: READ_ONLY is unset, or is true, 1 or yes in any case.
\* The environment does not change while a response is pending, so this is the
\* flag as it was when the pending invocation ran.
ReadOnlyEnabled ==
    \/ environ["READ_ONLY"] = None
    \/ environ["READ_ONLY"][1] \in
          {"true", "True", "TRUE", "yes", "Yes", "YES", "1"}

\* The invocation did not touch the client: no resolution, no handle, no call.
NoClient ==
    /\ call.config_calls = 0
    /\ call.handles = <<>>
    /\ call.calls = <<>>

\* How many calls of the invocation were made to the method op.
CallCount(op) == Cardinality({i \in 1..Len(call.calls) : call.calls[i].op = op})

\* An argument is supplied: present and not empty.
Supplied(o) == o # None /\ o[1] # ""

StartsWith(text, prefix) ==
    Len(text) >= Len(prefix) /\ SubSeq(text, 1, Len(prefix)) = prefix

\* The not-found message of each update and delete tool, up to the identifier.
NotFoundPrefix ==
    CASE call.tool \in {"invoice_issued_update", "invoice_issued_delete"} ->
           "Invoice not found: "
      [] call.tool \in {"contact_update", "contact_delete"} -> "Contact not found: "
      [] call.tool \in {"product_update", "product_delete"} -> "Product not found: "
      [] OTHER -> "Record not found in " \o call.args.evidence \o ": "

NotFoundError == StartsWith(call.raised, NotFoundPrefix)

---------------------------------------------------------------------------
(* C1. With read-only mode enabled when it is called, every create, update *)
(* and delete tool fails with the permission error, and the invocation     *)
(* resolves no configuration, constructs no handle and makes no client     *)
(* call.                                                                   *)
C1_ReadOnlyRefusesWrites ==
    (call.tool \in WriteTools /\ ReadOnlyEnabled) =>
        (call.raised = ERR_READ_ONLY /\ call.result = "" /\ NoClient)

\* evidence_delete of an existing id is refused under READ_ONLY=Yes although a
\* valid configuration is cached.
C1_Witness ==
    /\ call.tool = "evidence_delete"
    /\ call.args.id = Some("7")
    /\ environ["READ_ONLY"] = Some("Yes")
    /\ abraflexi_config # None
    /\ call.raised = ERR_READ_ONLY
    /\ NoClient

(* C2. In every update and delete tool an update or delete call is made    *)
(* only as the second client call, after a load that returned true; a load *)
(* that returns false ends the invocation with the not-found error after   *)
(* that one load and without an update or delete call.                     *)
C2_WriteOnlyAfterLoad ==
    call.tool \in UpdateTools \cup DeleteTools =>
        /\ \A i \in 1..Len(call.calls) :
              call.calls[i].op \in {"update", "delete"} =>
                  /\ i = 2
                  /\ call.calls[1].op = "load_from_abraflexi"
                  /\ call.calls[1].ok
                  /\ call.calls[1].ret = PyBool(TRUE)
        /\ CallCount("load_from_abraflexi") <= 1
        /\ (/\ call.calls # <<>>
            /\ call.calls[1].ok
            /\ call.calls[1].ret = PyBool(FALSE))
              => (/\ Len(call.calls) = 1
                  /\ call.calls[1].op = "load_from_abraflexi"
                  /\ NotFoundError
                  /\ call.result = "")

\* contact_update by kod "C1" with an email to set: the load finds nothing.
C2_Witness ==
    /\ call.tool = "contact_update"
    /\ call.args = [id |-> None, kod |-> Some("C1"),
                    data |-> Some(PyDict(<<"email">>, <<PyStr("a@b.cz")>>))]
    /\ Len(call.calls) = 1
    /\ call.calls[1].op = "load_from_abraflexi"
    /\ call.calls[1].ret = PyBool(FALSE)
    /\ call.raised = "Contact not found: code:C1"

(* C3 as stated. Every update and delete invocation that supplies neither  *)
(* id nor kod fails with the validation error and does not reach the       *)
(* client.                                                                 *)
C3_AsStated ==
    (call.tool \in UpdateTools \cup DeleteTools
     /\ ~Supplied(call.args.id) /\ ~Supplied(call.args.kod)) =>
        (call.raised = ERR_NO_IDENTIFIER /\ NoClient)

(* C3 as amended. Such an invocation never reaches the client; it fails    *)
(* with the validation error when read-only mode is disabled, and with the *)
(* permission error when read-only mode is enabled.                        *)
C3_NoIdentifierFails ==
    (call.tool \in UpdateTools \cup DeleteTools
     /\ ~Supplied(call.args.id) /\ ~Supplied(call.args.kod)) =>
        /\ NoClient
        /\ call.result = ""
        /\ call.raised = IF ReadOnlyEnabled THEN ERR_READ_ONLY ELSE ERR_NO_IDENTIFIER

\* product_delete with an empty id and no kod, writes allowed, a configuration
\* cached: the validation error.
C3_Witness ==
    /\ call.tool = "product_delete"
    /\ call.args = [id |-> Some(""), kod |-> None]
    /\ ~ReadOnlyEnabled
    /\ abraflexi_config # None
    /\ call.raised = ERR_NO_IDENTIFIER
    /\ NoClient

\* The number a decimal id of the model stands for.
IdNumber(id) == CASE id = "7" -> 7 [] id = "07" -> 7 [] OTHER -> -1

(* C4. In every update and delete tool the identifier handed to the load   *)
(* is the number id stands for whenever id is supplied, also when kod is   *)
(* given too, and is "code:<kod>" only when id is not supplied and kod is; *)
(* the not-found error ends with that same identifier.                     *)
C4_IdentifierResolution ==
    (call.tool \in UpdateTools \cup DeleteTools /\ call.calls # <<>>) =>
        LET a == call.args
            expected == IF Supplied(a.id) THEN PyInt(IdNumber(a.id[1]))
                        ELSE IF Supplied(a.kod) THEN PyStr("code:" \o a.kod[1])
                        ELSE PyNone
            text == IF Supplied(a.id) THEN "7" ELSE "code:" \o a.kod[1]
        IN  /\ call.calls[1].op = "load_from_abraflexi"
            /\ call.calls[1].arg = expected
            /\ expected # PyNone
            /\ NotFoundError => call.raised = NotFoundPrefix \o text

\* evidence_update with id "07" and kod "C1": the load is of 7, and the error
\* names 7.
C4_Witness ==
    /\ call.tool = "evidence_update"
    /\ call.args.id = Some("07")
    /\ call.args.kod = Some("C1")
    /\ call.args.evidence = "adresar"
    /\ call.calls # <<>>
    /\ call.calls[1].arg = PyInt(7)
    /\ call.raised = "Record not found in adresar: 7"

\* A configuration that has its endpoint, its tenant and a way to authenticate.
ValidConfig(c) ==
    /\ c.url # ""
    /\ c.company # ""
    /\ \/ Supplied(c.authSessionId)
       \/ Supplied(c.user) /\ Supplied(c.password)

\* The environment lacks the endpoint, the tenant or a way to authenticate.
EnvironLacksConfig ==
    \/ ~Supplied(environ["ABRAFLEXI_URL"])
    \/ ~Supplied(environ["ABRAFLEXI_COMPANY"])
    \/ /\ ~Supplied(environ["ABRAFLEXI_AUTHSESSID"])
       /\ ~(Supplied(environ["ABRAFLEXI_LOGIN"]) /\ Supplied(environ["ABRAFLEXI_PASSWORD"]))

\* The errors get_abraflexi_config raises.
ConfigErrors == {ERR_URL, ERR_COMPANY, ERR_AUTH, ERR_INT("1m")}

(* C5. Every call of get_abraflexi_config made while the environment lacks *)
(* the endpoint, the tenant or a valid authentication combination fails    *)
(* with a configuration error, whatever calls came before; every           *)
(* configuration a call returns is valid; and no handle is built from a    *)
(* configuration that is not. (Under Spec the connection variables never   *)
(* change, so a configuration cached from an earlier environment is not a  *)
(* case here.)                                                             *)
C5_ConfigAlwaysValid ==
    /\ (call.config_calls > 0 /\ EnvironLacksConfig) => call.raised \in ConfigErrors
    /\ call.resolved # None => ValidConfig(call.resolved[1])
    /\ \A i \in 1..Len(call.handles) : ValidConfig(call.handles[i].options)

(* C6. Once a call of get_abraflexi_config has returned a configuration,   *)
(* every later call returns that same configuration and reads no           *)
(* connection variable, whatever the environment has become.               *)
C6_ResolveOnce ==
    [][(first_config # None /\ call'.config_calls > 0) =>
          /\ call'.resolved = first_config
          /\ call'.reads \cap ConnVars = {}
          /\ abraflexi_config' = abraflexi_config]_vars

\* A call is answered from the first configuration after the endpoint was unset
\* and the session changed into a login.
C6_Witness ==
    /\ call.config_calls > 0
    /\ first_config # None
    /\ call.resolved = first_config
    /\ first_config[1].authSessionId = Some("sess01")
    /\ environ["ABRAFLEXI_URL"] = None
    /\ environ["ABRAFLEXI_AUTHSESSID"] = None
    /\ environ["ABRAFLEXI_LOGIN"] = Some("winstrom")
    /\ call.reads \cap ConnVars = {}

(* C7. Every write tool reads READ_ONLY when it is called and is refused   *)
(* exactly when the flag then enables read-only mode: unset counts as      *)
(* enabled, and a change made between two calls, also after the            *)
(* configuration was cached, decides the next call.                        *)
C7_FlagReadPerCall ==
    call.tool \in WriteTools =>
        /\ "READ_ONLY" \in call.reads
        /\ call.raised = ERR_READ_ONLY <=> ReadOnlyEnabled

\* READ_ONLY was unset when the process started; with it set to false a create is
\* let through and is served from the configuration an earlier call cached.
C7_Witness ==
    /\ call.tool = "invoice_issued_create"
    /\ environ["READ_ONLY"] = Some("false")
    /\ call.raised = ""
    /\ call.reads = {"READ_ONLY"}
    /\ call.resolved # None
    /\ Len(call.calls) = 1

\* The get tools of the five fixed categories.
CategoryGetTools == GetTools \ {"evidence_get"}

\* The predicate inputs of the pending get call that count as supplied.
HasIds == call.args.ids # None /\ call.args.ids[1] # <<>>

HasKod == "kod" \in DOMAIN call.args /\ Supplied(call.args.kod)

HasNazev == "nazev" \in DOMAIN call.args /\ Supplied(call.args.nazev)

HasFilterExpr == "filter_expr" \in DOMAIN call.args /\ Supplied(call.args.filter_expr)

\* The ids of the model written one after the other with commas.
Commas(ids) ==
    CASE ids = <<"1">> -> "1"
      [] ids = <<"1", "2">> -> "1,2"
      [] ids = <<"1", "2", "3">> -> "1,2,3"
      [] OTHER -> "?"

\* The filter the three predicates call for, in the order ids, code, name.
ExpectedFilter ==
    LET I == "id in (" \o Commas(call.args.ids[1]) \o ")"
        K == "kod='" \o call.args.kod[1] \o "'"
        N == "nazev like '*" \o call.args.nazev[1] \o "*'"
    IN  CASE HasIds /\ HasKod /\ HasNazev -> Some(I \o " AND " \o K \o " AND " \o N)
          [] HasIds /\ HasKod /\ ~HasNazev -> Some(I \o " AND " \o K)
          [] HasIds /\ ~HasKod /\ HasNazev -> Some(I \o " AND " \o N)
          [] HasIds /\ ~HasKod /\ ~HasNazev -> Some(I)
          [] ~HasIds /\ HasKod /\ HasNazev -> Some(K \o " AND " \o N)
          [] ~HasIds /\ HasKod /\ ~HasNazev -> Some(K)
          [] ~HasIds /\ ~HasKod /\ HasNazev -> Some(N)
          [] OTHER -> None

(* C8. In the category get tools the filter set on the handle is the       *)
(* AND-join of exactly the supplied predicates in the order ids, code,     *)
(* name: ids ["1","2"] with code "X1" give "id in (1,2) AND kod='X1'"; and *)
(* with no predicate supplied (absent or empty) no filter is set.          *)
C8_FilterComposition ==
    (call.tool \in CategoryGetTools /\ call.handles # <<>>) =>
        /\ call.handles[1].filter = ExpectedFilter
        /\ (call.args.ids = Some(<<"1", "2">>) /\ HasKod /\ ~HasNazev) =>
               call.handles[1].filter = Some("id in (1,2) AND kod='X1'")
        /\ (~HasIds /\ ~HasKod /\ ~HasNazev) => call.handles[1].filter = None

\* contact_get with all three predicates.
C8_Witness ==
    /\ call.tool = "contact_get"
    /\ call.handles # <<>>
    /\ call.args.ids = Some(<<"1", "2">>)
    /\ call.args.kod = Some("X1")
    /\ call.args.nazev = Some("Nov")
    /\ call.handles[1].filter =
           Some("id in (1,2) AND kod='X1' AND nazev like '*Nov*'")

(* C9. For every get tool called with no filter arguments, the limit       *)
(* parameter of the handle is the supplied limit for every supplied        *)
(* integer, and is not set when no limit is supplied.                      *)
C9_LimitForwarded ==
    (/\ call.tool \in GetTools
     /\ call.handles # <<>>
     /\ ~HasIds /\ ~HasKod /\ ~HasNazev /\ ~HasFilterExpr) =>
        call.handles[1].limit = call.args.limit

\* The text of the fetched records of the model.
ExpectedText(ret) ==
    IF ret = PyList(<<>>) THEN "[]"
    ELSE "[\n  {\n    \"id\": 1,\n    \"kod\": \"X1\"\n  }\n]"

\* A get tool makes no call but the fetch, and is never refused for read-only mode.
ReadsOnly ==
    /\ call.raised # ERR_READ_ONLY
    /\ "READ_ONLY" \notin call.reads
    /\ \A i \in 1..Len(call.calls) : call.calls[i].op = "get_all_from_abraflexi"

\* The pending get call went the whole way: handle, detail, one fetch, result.
FetchedAndReturned ==
    /\ Len(call.handles) = 1
    /\ call.handles[1].mode = "ReadOnly"
    /\ call.handles[1].detail =
          Some(IF call.args.detail = None THEN "summary" ELSE call.args.detail[1])
    /\ Len(call.calls) = 1
    /\ call.calls[1].ok
    /\ call.raised = ""
    /\ call.result = ExpectedText(call.calls[1].ret)

(* C10 as stated: every get tool, whatever the read-only setting, is never *)
(* refused, constructs a read-only handle, sets detail (default summary),  *)
(* performs exactly one fetch-all and nothing else, and returns the        *)
(* formatted result.                                                       *)
C10_AsStated == call.tool \in GetTools => (ReadsOnly /\ FetchedAndReturned)

(* C10, amended. Every get tool, whatever the read-only setting, is never  *)
(* refused with the permission error and makes no load, insert, update or  *)
(* delete call. When the configuration cannot be resolved it fails with    *)
(* the configuration error and builds no handle. Otherwise it builds one   *)
(* read-only handle, sets detail (default summary) and fetches exactly     *)
(* once; an upstream failure of the fetch is raised, and any fetched       *)
(* collection, the empty one too, is returned formatted.                   *)
C10_GetToolsOnlyFetch ==
    call.tool \in GetTools =>
        /\ ReadsOnly
        /\ call.config_calls = 1
        /\ IF call.resolved = None
           THEN call.raised \in ConfigErrors /\ call.handles = <<>> /\ call.calls = <<>>
           ELSE IF call.calls # <<>> /\ ~call.calls[1].ok
           THEN /\ Len(call.handles) = 1 /\ Len(call.calls) = 1
                /\ call.handles[1].mode = "ReadOnly"
                /\ call.handles[1].detail # None
                /\ call.raised = UPSTREAM /\ call.result = ""
           ELSE FetchedAndReturned

\* With read-only mode enabled, evidence_get without a detail fetches nothing and
\* returns the empty collection.
C10_Witness ==
    /\ call.tool = "evidence_get"
    /\ ReadOnlyEnabled
    /\ call.args.detail = None
    /\ call.handles # <<>>
    /\ call.handles[1].detail = Some("summary")
    /\ CallCount("get_all_from_abraflexi") = 1
    /\ call.calls[1].ret = PyList(<<>>)
    /\ call.result = "[]"

\* The field names a create tool writes from its named parameters, in the order
\* of its statements.
NamedKeys ==
    CASE call.tool \in {"invoice_issued_create", "invoice_received_create"} ->
           <<"kod", "firma", "datVyst", "polozkyFaktury">>
      [] call.tool = "contact_create" -> <<"kod", "nazev", "email", "tel">>
      [] call.tool = "product_create" -> <<"kod", "nazev", "cenaZakl">>
      [] call.tool = "bank_transaction_create" -> <<"banka", "datum", "castka", "popis">>
      [] OTHER -> <<>>

\* How many of the named fields are required ones.
RequiredCount ==
    CASE call.tool = "bank_transaction_create" -> 3
      [] call.tool = "evidence_create" -> 0
      [] OTHER -> 2

\* The mapping a create call was given: extra_fields, or data for evidence_create;
\* the empty mapping when it was left out.
ExtraMapping ==
    IF call.tool = "evidence_create" THEN call.args.data
    ELSE IF call.args.extra_fields = None THEN PyDict(<<>>, <<>>)
    ELSE call.args.extra_fields[1]

\* The place of a key among the named fields, 0 when it is none of them.
NamedIndex(key) ==
    LET at == {j \in 1..Len(NamedKeys) : NamedKeys[j] = key}
    IN  IF at = {} THEN 0 ELSE CHOOSE j \in at : TRUE

\* The value written last under a key in a sequence of writes.
LastWritten(writes, key) ==
    LET at == {i \in 1..Len(writes) : writes[i].key = key}
    IN  writes[CHOOSE i \in at : \A j \in at : j <= i].value

(* C11. Every create tool that is past the read-only gate and has its      *)
(* handle writes its named fields first, in the order of its parameters,   *)
(* and then every entry of the supplied mapping in the mapping's order, so *)
(* the value last written under a name of the mapping is the mapping's     *)
(* (an extra field overrides a named field of that name); then it issues   *)
(* exactly one insert call.                                                *)
C11_NamedThenExtra ==
    (call.tool \in CreateTools /\ call.handles # <<>>) =>
        LET writes == call.handles[1].data
            extra == ExtraMapping
            n == Len(extra.keys)
            m == Len(writes) - n
        IN  /\ m >= RequiredCount
            /\ \A i \in 1..RequiredCount : writes[i].key = NamedKeys[i]
            /\ \A i \in 1..m : NamedIndex(writes[i].key) > 0
            /\ \A i, j \in 1..m :
                  i < j => NamedIndex(writes[i].key) < NamedIndex(writes[j].key)
            /\ \A i \in 1..n :
                  /\ writes[m + i] = [key |-> extra.keys[i], value |-> extra.items[i]]
                  /\ LastWritten(writes, extra.keys[i]) = extra.items[i]
            /\ Len(call.calls) = 1
            /\ call.calls[1].op = "insert_to_abraflexi"

\* contact_create with an email, and with extra fields that name email and kod
\* again: five writes, and kod and email end as the extra fields have them.
C11_Witness ==
    /\ call.tool = "contact_create"
    /\ call.handles # <<>>
    /\ call.args.email = Some("n@b.cz")
    /\ call.args.extra_fields # None
    /\ Len(call.handles[1].data) = 5
    /\ call.handles[1].data[1] = [key |-> "kod", value |-> PyStr("C1")]
    /\ LastWritten(call.handles[1].data, "kod") = PyStr("Z9")
    /\ LastWritten(call.handles[1].data, "email") = PyStr("a@b.cz")
    /\ CallCount("insert_to_abraflexi") = 1

\* The create tools whose result repeats the kod.
KodEchoTools == CreateTools \ {"bank_transaction_create", "evidence_create"}

\* The text of a create result with the given success flag and id.
CreateText(success, id) ==
    "{\n  \"success\": " \o (IF success.b THEN "true" ELSE "false")
    \o ",\n  \"id\": " \o (IF id = PyInt(101) THEN "101" ELSE "null")
    \o (IF call.tool \in KodEchoTools
        THEN ",\n  \"kod\": \"" \o call.args.kod \o "\""
        ELSE "")
    \o "\n}"

(* C12. With read-only disabled, the result a create call returns carries  *)
(* the success flag its insert reported, the id that insert left on the    *)
(* handle of the call, and for the invoice, contact and product tools the  *)
(* kod that was supplied: invoice_issued_create with kod "INV001" and      *)
(* firma "code:CUST1" returns success true, the assigned id and kod        *)
(* "INV001". A result is returned exactly when neither the configuration   *)
(* nor the insert raised.                                                  *)
C12_CreateResult ==
    (call.tool \in CreateTools /\ ~ReadOnlyEnabled) =>
        IF call.raised # "" THEN call.result = ""
        ELSE /\ Len(call.handles) = 1
             /\ Len(call.calls) = 1
             /\ call.calls[1].op = "insert_to_abraflexi"
             /\ call.calls[1].ok
             /\ call.result =
                   CreateText(call.calls[1].ret, call.handles[1].last_inserted_id)
             /\ call.calls[1].ret = PyBool(TRUE) =>
                   call.handles[1].last_inserted_id = PyInt(101)

\* The scenario of the specification.
C12_Witness ==
    /\ call.tool = "invoice_issued_create"
    /\ environ["READ_ONLY"] = Some("false")
    /\ call.args.kod = "INV001"
    /\ call.args.firma = "code:CUST1"
    /\ call.result =
          "{\n  \"success\": true,\n  \"id\": 101,\n  \"kod\": \"INV001\"\n}"

\* The mapping an update call was given; the empty mapping when it was left out.
UpdateMapping ==
    IF call.args.data = None THEN PyDict(<<>>, <<>>) ELSE call.args.data[1]

\* The text of a result that holds the success flag alone.
SuccessText(flag) ==
    IF flag.b THEN "{\n  \"success\": true\n}" ELSE "{\n  \"success\": false\n}"

(* C13. Every update tool whose load succeeded writes every entry of data, *)
(* in order, over the loaded record and nothing else: a field of data ends *)
(* with the supplied value, a loaded field not in data keeps its loaded    *)
(* value. It then issues exactly one update call, and its result is the    *)
(* success flag of that update alone (the error of the update if it        *)
(* raised).                                                                *)
C13_UpdateOverlaysLoaded ==
    (/\ call.tool \in UpdateTools
     /\ call.calls # <<>>
     /\ call.calls[1].ok
     /\ call.calls[1].ret = PyBool(TRUE)) =>
        LET writes == call.handles[1].data
            data == UpdateMapping
            n == Len(data.keys)
            m == Len(writes) - n
        IN  /\ m = Len(LoadedRecord)
            /\ SubSeq(writes, 1, m) = LoadedRecord
            /\ \A i \in 1..n :
                  /\ writes[m + i] = [key |-> data.keys[i], value |-> data.items[i]]
                  /\ LastWritten(writes, data.keys[i]) = data.items[i]
            /\ \A i \in 1..m :
                  (\A j \in 1..n : data.keys[j] # LoadedRecord[i].key) =>
                      LastWritten(writes, LoadedRecord[i].key) = LoadedRecord[i].value
            /\ Len(call.calls) = 2
            /\ call.calls[2].op = "update"
            /\ IF call.calls[2].ok
               THEN call.raised = "" /\ call.result = SuccessText(call.calls[2].ret)
               ELSE call.raised = UPSTREAM /\ call.result = ""

\* contact_update of the loaded record with a new email: the email is the new
\* one, the name the loaded one, and the result is the flag alone.
C13_Witness ==
    /\ call.tool = "contact_update"
    /\ call.args.data = Some(PyDict(<<"email">>, <<PyStr("a@b.cz")>>))
    /\ Len(call.calls) = 2
    /\ call.calls[2].ret = PyBool(TRUE)
    /\ LastWritten(call.handles[1].data, "email") = PyStr("a@b.cz")
    /\ LastWritten(call.handles[1].data, "nazev") = PyStr("Old")
    /\ call.result = "{\n  \"success\": true\n}"

\* One entry of the evidence list as it is printed.
EvidenceEntryText(name, description) ==
    "  {\n    \"name\": \"" \o name \o "\",\n    \"description\": \""
    \o description \o "\"\n  }"

\* The thirteen evidences as evidence_list prints them.
EvidenceListText ==
    "[\n"
    \o EvidenceEntryText("faktura-vydana", "Issued invoices") \o ",\n"
    \o EvidenceEntryText("faktura-prijata", "Received invoices") \o ",\n"
    \o EvidenceEntryText("adresar", "Contacts and companies") \o ",\n"
    \o EvidenceEntryText("cenik", "Products and services") \o ",\n"
    \o EvidenceEntryText("banka", "Bank transactions") \o ",\n"
    \o EvidenceEntryText("pokladna", "Cash transactions") \o ",\n"
    \o EvidenceEntryText("nabidka-vydana", "Issued quotes") \o ",\n"
    \o EvidenceEntryText("objednavka-vydana", "Issued orders") \o ",\n"
    \o EvidenceEntryText("objednavka-prijata", "Received orders") \o ",\n"
    \o EvidenceEntryText("dodaci-list", "Delivery notes") \o ",\n"
    \o EvidenceEntryText("sklad", "Warehouse/stock") \o ",\n"
    \o EvidenceEntryText("cenova-uroven", "Price levels") \o ",\n"
    \o EvidenceEntryText("typ-smlouvy", "Contract types")
    \o "\n]"

(* C14. evidence_list returns the same list of 13 evidence name and        *)
(* description pairs on every call and in every state of the environment:  *)
(* it raises nothing, reads no variable, does not resolve the              *)
(* configuration, constructs no handle and makes no client call.           *)
C14_EvidenceListFixed ==
    call.tool = "evidence_list" =>
        /\ call.result = EvidenceListText
        /\ Len(EVIDENCES) = 13
        /\ call.raised = ""
        /\ call.reads = {}
        /\ call.resolved = None
        /\ NoClient

\* The list is returned with read-only mode enabled, no endpoint in the
\* environment and no configuration resolved.
C14_Witness ==
    /\ call.tool = "evidence_list"
    /\ ReadOnlyEnabled
    /\ environ["ABRAFLEXI_URL"] = None
    /\ environ["ABRAFLEXI_LOGIN"] = Some("winstrom")
    /\ abraflexi_config = None
    /\ call.result = EvidenceListText

\* The text of a value that is no list and no record.
ScalarText(v) ==
    CASE v.t = "none" -> "null"
      [] v.t = "bool" -> IF v.b THEN "true" ELSE "false"
      [] v = PyInt(0) -> "0"
      [] v = PyInt(1) -> "1"
      [] v = PyInt(2) -> "2"
      [] v = PyInt(12) -> "12"
      [] OTHER -> "\"" \o v.s \o "\""

\* The texts one after the other, each on its own line after `pad`, with commas
\* between them.
RECURSIVE Lines(_, _)
Lines(texts, pad) ==
    IF Len(texts) = 1 THEN pad \o texts[1]
    ELSE pad \o texts[1] \o ",\n" \o Lines(Tail(texts), pad)

\* A record printed with its keys in the order it holds them, closing at `pad`.
RecordText(d, pad) ==
    IF d.keys = <<>> THEN "{}"
    ELSE "{\n"
         \o Lines([i \in 1..Len(d.keys) |->
                      "\"" \o d.keys[i] \o "\": " \o ScalarText(d.items[i])],
                  pad \o "  ")
         \o "\n" \o pad \o "}"

\* A list of records printed in the order of the list.
ListText(l) ==
    IF l.items = <<>> THEN "[]"
    ELSE "[\n"
         \o Lines([i \in 1..Len(l.items) |-> RecordText(l.items[i], "  ")], "  ")
         \o "\n]"

(* C15. format_response maps True to {"success": true} and False to        *)
(* {"success": false}, and maps every value that is no boolean (a scalar,  *)
(* a record, a list of records) to its own JSON text, not wrapped in a     *)
(* success envelope, with the list in its order and each record's keys in  *)
(* their order.                                                            *)
C15_FormatResponse ==
    call.tool = "format_response" =>
        LET v == call.args
        IN  call.result =
              CASE v = PyBool(TRUE) -> "{\"success\": true}"
                [] v = PyBool(FALSE) -> "{\"success\": false}"
                [] v.t = "list" -> ListText(v)
                [] v.t = "dict" -> RecordText(v, "")
                [] OTHER -> ScalarText(v)

\* A list of two records whose keys come in different orders.
C15_Witness ==
    /\ call.tool = "format_response"
    /\ call.args = PyList(<<PyDict(<<"id", "kod">>, <<PyInt(1), PyStr("X1")>>),
                            PyDict(<<"kod", "id">>, <<PyStr("X1"), PyInt(2)>>)>>)
    /\ call.result =
          "[\n  {\n    \"id\": 1,\n    \"kod\": \"X1\"\n  },\n"
          \o "  {\n    \"kod\": \"X1\",\n    \"id\": 2\n  }\n]"

\* The worker threads whose invocation holds a reference to the object i.
Holders(i) == {t \in Threads : running[t].ref = i}

\* What the invocation on thread t may have left in its own handle so far: its
\* own filter, its own limit, its own fields.
OwnContent(t) ==
    LET a == running[t].args
        h == heap[running[t].ref].h
    IN  IF running[t].tool = "contact_get"
        THEN /\ h.mode = "ReadOnly"
             /\ h.filter \in {None, IF Supplied(a.kod) THEN Some("kod='X1'") ELSE None}
             /\ h.limit \in {None, a.limit}
             /\ h.data = <<>>
        ELSE /\ h.mode = "ReadWrite"
             /\ h.filter = None /\ h.limit = None /\ h.detail = None
             /\ \A i \in 1..Len(h.data) :
                   \/ h.data[i] \in {[key |-> "kod", value |-> PyStr(a.kod)],
                                     [key |-> "firma", value |-> PyStr(a.firma)]}
                   \/ /\ a.extra_fields # None
                      /\ \E j \in 1..Len(a.extra_fields[1].keys) :
                            h.data[i] = [key |-> a.extra_fields[1].keys[j],
                                         value |-> a.extra_fields[1].items[j]]

(* C16. Every invocation that gets past the factory constructed exactly    *)
(* one handle and works through that one alone: no handle is held or used  *)
(* by two invocations, however their statements interleave, and a handle   *)
(* holds only the filter, limit and fields of its own invocation.          *)
C16_FreshHandlePerInvocation ==
    /\ \A i \in 1..Len(heap) :
          /\ Cardinality(Holders(i)) <= 1
          /\ heap[i].users \subseteq {heap[i].maker}
          /\ \A j \in 1..Len(heap) : heap[j].maker = heap[i].maker => j = i
    /\ \A t \in Threads :
          /\ running[t].pc \in {"filter", "detail", "limit", "fetch", "fields", "insert"}
                => running[t].ref > 0
          /\ running[t].ref > 0 =>
                /\ heap[running[t].ref].maker = running[t].id
                /\ OwnContent(t)

\* A get with a filter and a limit and a create with extra fields, both past
\* the factory at the same time, each with its own handle filled.
C16_Witness ==
    \E t, u \in Threads :
        /\ running[t].tool = "contact_get"
        /\ running[u].tool = "invoice_issued_create"
        /\ running[t].ref > 0 /\ running[u].ref > 0
        /\ running[t].ref # running[u].ref
        /\ running[t].pc = "fetch"
        /\ running[u].pc = "insert"
        /\ heap[running[t].ref].h.filter = Some("kod='X1'")
        /\ heap[running[t].ref].h.limit = Some(1)
        /\ Len(heap[running[u].ref].h.data) = 4

\* The client methods of an invocation, in the order it called them.
CallOps == [i \in 1..Len(call.calls) |-> call.calls[i].op]

\* The client calls a tool makes when none of them stops it.
FullCallOps ==
    CASE call.tool \in GetTools -> <<"get_all_from_abraflexi">>
      [] call.tool \in CreateTools -> <<"insert_to_abraflexi">>
      [] call.tool \in UpdateTools -> <<"load_from_abraflexi", "update">>
      [] call.tool \in DeleteTools -> <<"load_from_abraflexi", "delete">>
      [] OTHER -> <<>>

(* C17. Every tool invocation makes at most two client calls, in sequence: *)
(* a get one fetch, a create one insert, an update or delete one load      *)
(* followed by at most one write. When a client call raises, it is the     *)
(* last call of the invocation, no call is repeated, and the invocation    *)
(* ends with that error unchanged and without a result.                    *)
C17_FewCallsNoRetry ==
    /\ Len(call.calls) <= 2
    /\ Len(call.calls) <= Len(FullCallOps)
    /\ CallOps = SubSeq(FullCallOps, 1, Len(call.calls))
    /\ \A i \in 1..Len(call.calls) :
          ~call.calls[i].ok =>
              /\ i = Len(call.calls)
              /\ call.raised = UPSTREAM
              /\ call.result = ""

\* invoice_issued_delete: the load finds the record, the delete raises.
C17_Witness ==
    /\ call.tool = "invoice_issued_delete"
    /\ Len(call.calls) = 2
    /\ call.calls[1].ok /\ call.calls[1].ret = PyBool(TRUE)
    /\ call.calls[2].op = "delete"
    /\ ~call.calls[2].ok
    /\ call.raised = UPSTREAM
    /\ call.result = ""

\* The entry point has run and the process is serving or has exited.
Started == process.pc # "launched"

(* C18. Once the process has started: when the environment lacks the       *)
(* endpoint, the tenant or a valid authentication combination, the process *)
(* has exited with a non-zero status and no transport was ever started;    *)
(* otherwise a transport was started, and the process exits only by being  *)
(* interrupted.                                                            *)
C18_AsStated ==
    Started =>
        IF EnvironLacksConfig
        THEN /\ process.pc = "exited"
             /\ process.status # 0
             /\ process.runs = <<>>
        ELSE /\ process.runs # <<>>
             /\ process.pc = "exited" => process.raised = "KeyboardInterrupt"

\* server.main() has run: it reads the transport variable first of all.
MainRan == Started /\ "ABRAFLEXI_MCP_TRANSPORT" \in process.reads

\* The transport variable names the network listener, in whatever case.
NamesListener ==
    environ["ABRAFLEXI_MCP_TRANSPORT"] \in {Some("streamable-http"), Some("Streamable-HTTP")}

\* The variables only the network listener needs.
ListenerVars == {"ABRAFLEXI_MCP_HOST", "ABRAFLEXI_MCP_PORT", "ABRAFLEXI_MCP_STATELESS_HTTP"}

\* The port variable is set to something that is no number.
PortNotANumber == environ["ABRAFLEXI_MCP_PORT"] = Some("http")

\* The listener the environment asks for.
ExpectedListener ==
    [transport |-> "streamable-http",
     host |-> IF environ["ABRAFLEXI_MCP_HOST"] = None THEN "127.0.0.1" ELSE "0.0.0.0",
     port |-> IF environ["ABRAFLEXI_MCP_PORT"] = None THEN 8000 ELSE 9000,
     stateless |-> environ["ABRAFLEXI_MCP_STATELESS_HTTP"] = Some("Yes")]

(* C19, as stated. Whenever the transport entry point has run, exactly one *)
(* transport was started: the network listener when the transport value is *)
(* streamable-http in any case, stdio when it is unset or anything else;   *)
(* and host, port and the stateless flag were read only when the listener  *)
(* was chosen.                                                             *)
C19_AsStated ==
    MainRan =>
        /\ Len(process.runs) = 1
        /\ process.runs[1].transport =
              IF NamesListener THEN "streamable-http" ELSE "stdio"
        /\ (process.reads \cap ListenerVars # {}) <=> NamesListener

(* C19. Whenever the transport entry point has run, at most one transport  *)
(* was started, chosen from the transport value alone. When the value is   *)
(* streamable-http in any case, host, port and the stateless flag are read *)
(* and the network listener is started with them, unless the port is no    *)
(* number: then the entry point raises after reading the port, no          *)
(* transport is started and the process exits with status 1. When the      *)
(* value is unset or anything else, stdio is started and none of host,     *)
(* port and the stateless flag is read.                                    *)
C19_TransportChoice ==
    MainRan =>
        IF NamesListener
        THEN IF PortNotANumber
             THEN /\ process.runs = <<>>
                  /\ process.pc = "exited" /\ process.status = 1
                  /\ process.raised = "ValueError"
                  /\ "ABRAFLEXI_MCP_STATELESS_HTTP" \notin process.reads
             ELSE /\ process.runs = <<ExpectedListener>>
                  /\ ListenerVars \subseteq process.reads
        ELSE /\ Len(process.runs) = 1
             /\ process.runs[1].transport = "stdio"
             /\ process.reads \cap ListenerVars = {}

\* The console script with the transport written in mixed case, port 9000 and
\* the stateless flag set: the listener serves on that port.
C19_Witness ==
    /\ process.entry = "abraflexi-mcp"
    /\ process.pc = "serving"
    /\ environ["ABRAFLEXI_MCP_TRANSPORT"] = Some("Streamable-HTTP")
    /\ environ["ABRAFLEXI_MCP_PORT"] = Some("9000")
    /\ environ["ABRAFLEXI_MCP_STATELESS_HTTP"] = Some("Yes")
    /\ Len(process.runs) = 1
    /\ process.runs[1].transport = "streamable-http"
    /\ process.runs[1].port = 9000
    /\ process.runs[1].stateless

\* The 21 stable tool names.
StableToolNames ==
    {"invoice_issued_get", "invoice_issued_create", "invoice_issued_update",
     "invoice_issued_delete", "invoice_received_get", "invoice_received_create",
     "contact_get", "contact_create", "contact_update", "contact_delete",
     "product_get", "product_create", "product_update", "product_delete",
     "bank_transaction_get", "bank_transaction_create", "evidence_get",
     "evidence_create", "evidence_update", "evidence_delete", "evidence_list"}

\* The create tools of the five record categories.
CategoryCreateTools == CreateTools \ {"evidence_create"}

\* The annotations of a mapping parameter.
MappingAnnotations == {"Dict[str, Any]", "Optional[Dict[str, Any]]"}

\* The registered tool `name` has a mapping parameter called `param`.
HasMappingParam(name, param) ==
    \E i \in 1..Len(registry.tools) :
        /\ registry.tools[i].name = name
        /\ \E j \in 1..Len(registry.tools[i].params) :
              /\ registry.tools[i].params[j].name = param
              /\ registry.tools[i].params[j].annotation \in MappingAnnotations

(* C20. Once the server module is imported, the registered tools include   *)
(* every one of the 21 stable tool names, no registered tool has a         *)
(* **kwargs parameter, every category create tool has a mapping parameter  *)
(* extra_fields and every update tool a mapping parameter data; and the    *)
(* registration test, when it has run to its end, has passed.              *)
C20_ToolCatalog ==
    registry.pc # "import" =>
        /\ Cardinality(StableToolNames) = 21
        /\ StableToolNames \subseteq ToolNames(registry.tools)
        /\ \A i \in 1..Len(registry.tools) :
              \A j \in 1..Len(registry.tools[i].params) :
                  registry.tools[i].params[j].kind # "VAR_KEYWORD"
        /\ \A name \in CategoryCreateTools : HasMappingParam(name, "extra_fields")
        /\ \A name \in UpdateTools : HasMappingParam(name, "data")
        /\ registry.pc = "done" => registry.passed = Some(TRUE)

\* The import registered the tools one by one and the registration test ran
\* to its end and passed.
C20_Witness ==
    /\ registry.pc = "done"
    /\ registry.passed = Some(TRUE)
    /\ Len(registry.tools) = 21
    /\ registry.tools[21].name = "evidence_list"

\* The pending invocation is of an update or a delete tool.
LoadFirstCall == call.tool \in UpdateTools \cup DeleteTools

\* Neither id nor kod was passed to the pending invocation.
NeitherIdNorKod == call.args.id = None /\ call.args.kod = None

(* C21. In every update and delete tool the checks run in the order        *)
(* read-only gate, identifier validation, configuration resolution, load.  *)
(* With read-only enabled the invocation ends with the permission error    *)
(* whatever its arguments and the configuration. With read-only disabled   *)
(* and neither id nor kod passed it ends with the validation error, also   *)
(* when the environment lacks a configuration. In both cases the           *)
(* configuration is not resolved, no handle is built and no call is made.  *)
(* A configuration error is only met by an invocation that passed the gate *)
(* and has an identifier, and it comes before any load; a load is only     *)
(* made with a resolved configuration.                                     *)
C21_CheckOrder ==
    LoadFirstCall =>
        /\ ReadOnlyEnabled => call.raised = ERR_READ_ONLY /\ NoClient
        /\ (~ReadOnlyEnabled /\ NeitherIdNorKod) =>
              call.raised = ERR_NO_IDENTIFIER /\ NoClient
        /\ call.raised \in ConfigErrors =>
              /\ ~ReadOnlyEnabled
              /\ Supplied(call.args.id) \/ Supplied(call.args.kod)
              /\ call.handles = <<>> /\ call.calls = <<>>
        /\ call.calls # <<>> =>
              /\ call.calls[1].op = "load_from_abraflexi"
              /\ call.config_calls = 1
              /\ call.resolved # None

\* evidence_delete with no identifier, read-only off and nothing configured: the
\* validation error, not the configuration error.
C21_Witness ==
    /\ call.tool = "evidence_delete"
    /\ environ["READ_ONLY"] = Some("false")
    /\ environ["ABRAFLEXI_URL"] = None
    /\ NeitherIdNorKod
    /\ call.raised = ERR_NO_IDENTIFIER
    /\ call.config_calls = 0

\* The pending invocation is an evidence_get that built its handle.
EvidenceGetHandle == call.tool = "evidence_get" /\ call.handles # <<>>

(* C22. In evidence_get, when a non-empty ids list is passed the filter of *)
(* the handle is the id-inclusion clause alone, whether or not filter_expr *)
(* is passed too: the two are never joined. The filter is filter_expr,     *)
(* verbatim, exactly when filter_expr is passed non-empty and ids is       *)
(* absent or empty; with neither, no filter is set.                        *)
C22_IdsOverrideFilterExpr ==
    EvidenceGetHandle =>
        /\ HasIds =>
              call.handles[1].filter =
                  Some("id in (" \o Commas(call.args.ids[1]) \o ")")
        /\ (~HasIds /\ HasFilterExpr) =>
              call.handles[1].filter = call.args.filter_expr
        /\ (~HasIds /\ ~HasFilterExpr) => call.handles[1].filter = None
        /\ call.handles[1].filter = Some("stavUhrK is empty") =>
              ~HasIds /\ call.args.filter_expr = Some("stavUhrK is empty")

\* evidence_get with two ids and a filter expression: the expression is dropped.
C22_Witness ==
    /\ call.tool = "evidence_get"
    /\ call.args.ids = Some(<<"1", "2">>)
    /\ call.args.filter_expr = Some("stavUhrK is empty")
    /\ call.handles # <<>>
    /\ call.handles[1].filter = Some("id in (1,2)")

\* The kod field of the record the pending create call handed to its insert:
\* the value written last under that key.
InsertedKod == LastWritten(call.handles[1].data, "kod")

\* The text of a create result that reports the given kod.
KodEchoText(success, id, kod) ==
    "{\n  \"success\": " \o (IF success.b THEN "true" ELSE "false")
    \o ",\n  \"id\": " \o (IF id = PyInt(101) THEN "101" ELSE "null")
    \o ",\n  \"kod\": \"" \o kod \o "\"\n}"

(* C23. For every create tool that repeats kod in its result                *)
(* (invoice_issued_create, invoice_received_create, contact_create,         *)
(* product_create), the kod of a returned result is the kod field of the    *)
(* record that was handed to the insert call, for every combination of kod  *)
(* and extra_fields.                                                        *)
C23_KodEchoMatchesRecord ==
    (call.tool \in KodEchoTools /\ call.raised = "" /\ call.calls # <<>>) =>
        /\ InsertedKod.t = "str"
        /\ call.result =
              KodEchoText(call.calls[1].ret, call.handles[1].last_inserted_id,
                          InsertedKod.s)

====
